---- MODULE Spec2Model ----
(***************************************************************************)
(* A model of opencode-websearch-gemini: the Gemini response formatter     *)
(* (text extraction, citation aggregation, UTF-8 byte splicing, Sources    *)
(* block), the geminisearch plugin and the websearch_cited plugin with its *)
(* provider clients.                                                       *)
(*                                                                         *)
(* Strings are sequences of characters (each character a one-character     *)
(* TLA+ string, or a literal token for a fixed piece of program text).     *)
(* Byte arrays are sequences of integers 0..255.  An absent (undefined)    *)
(* string is the value Undef; other optional fields carry a has* flag.     *)
(***************************************************************************)
EXTENDS Integers, Sequences, FiniteSets, TLC

VARIABLES
    sText,          \* splicer: the text argument
    sInsertions,    \* splicer: the insertions argument
    sCalled,        \* splicer: TRUE once insertMarkersByUtf8Index has returned
    sParts,         \* splicer: the parts array the call assembled
    sOut            \* splicer: the returned string

VARIABLES
    fResponse,      \* formatter: the response argument
    fQuery,         \* formatter: the query argument
    fCalled,        \* formatter: TRUE once formatWebSearchResponse has returned
    fResponseText,  \* formatter: the local responseText
    fInsertions,    \* formatter: the insertions handed to the splicer
    fResult         \* formatter: the returned GeminiSearchResult

VARIABLES
    loaded,                 \* which index.ts the process has loaded
    googleApiKeyFromAuth,   \* GeminiSearchPlugin: key kept by the auth loader
    envGeminiApiKey,        \* process.env.GEMINI_API_KEY
    selectedProvider,       \* WebsearchCitedPlugin closure state
    selectedModel,
    openaiConfig,
    configError,
    authRegistry,           \* module-level Map providerID -> GetAuth
    cfgInput,               \* the Config object last handed to the config hook
    call,                   \* the last operation invoked and its arguments
    thrown,                 \* the message of the error it threw, or Undef
    returned,               \* the string websearch_cited / search returned, or Undef
    gResult,                \* the result geminisearch serialised, or NoResult
    requests,               \* the network requests it sent, in order
    authAsked               \* the providers whose getAuth callback it called

VARIABLES
    tokenCache,     \* google OAuth: module-level Map refresh token -> access token, expiry
    projectCache,   \* google OAuth: module-level Map refresh token -> project id
    now,            \* Date.now(), in milliseconds
    tokensIssued,   \* how many access tokens the OAuth token endpoint has issued
    searchesStarted,\* how many OAuth searches have been started
    oauth,          \* the locals of the OAuth search in progress and its position
    orPayload,      \* the JSON body OpenRouter answers with
    orCalled,       \* has the OpenRouter search been made
    race,           \* two OAuth searches in progress at once: each one's locals,
                    \* requests and outcome
    caPayload,      \* the parsed body of a Code Assist generateContent response
    caResult,       \* what requestGenerateContent made of it
    sseBody,        \* the body of an OpenAI response, as lines
    sseResult       \* what readOpenAIResponsePayload made of it

spliceVars == <<sText, sInsertions, sCalled, sParts, sOut>>
formatVars == <<fResponse, fQuery, fCalled, fResponseText, fInsertions, fResult>>
geminiVars == <<googleApiKeyFromAuth, envGeminiApiKey>>
citedVars == <<selectedProvider, selectedModel, openaiConfig, configError, cfgInput>>
callVars == <<call, thrown, returned, gResult, requests, authAsked>>
pluginVars == <<loaded, geminiVars, citedVars, authRegistry, callVars>>
oauthVars == <<tokenCache, projectCache, now, tokensIssued, searchesStarted, oauth>>
openrouterVars == <<orPayload, orCalled>>
raceVars == <<race>>
decodeVars == <<caPayload, caResult, sseBody, sseResult>>
vars == <<spliceVars, formatVars, pluginVars, oauthVars, openrouterVars, raceVars, decodeVars>>

\* An absent (undefined) string.
Undef == <<"<undefined>">>

(***************************************************************************)
(* Bounds of the model.                                                    *)
(***************************************************************************)
SpliceMaxLen == 2      \* characters in a text handed to the splicer
SpliceMaxIns == 2      \* insertions handed to the splicer
IdxSlack == 1          \* how far outside 0..byteLength an index may lie
MaxChunks == 2         \* grounding chunks in a response
MaxSupports == 2       \* grounding supports in a response

(***************************************************************************)
(* Sequence helpers.                                                       *)
(***************************************************************************)
RECURSIVE Flatten(_)
Flatten(ss) == IF ss = <<>> THEN <<>> ELSE Head(ss) \o Flatten(Tail(ss))

RECURSIVE SeqsUpTo(_, _)
SeqsUpTo(S, n) ==
    IF n = 0 THEN {<<>>}
    ELSE LET shorter == SeqsUpTo(S, n - 1)
         IN  shorter \cup {Append(s, x) : s \in {t \in shorter : Len(t) = n - 1}, x \in S}

Range(s) == {s[i] : i \in DOMAIN s}

Min2(a, b) == IF a <= b THEN a ELSE b
Max2(a, b) == IF a >= b THEN a ELSE b

(***************************************************************************)
(* Characters and their UTF-8 encodings (TextEncoder.encode).              *)
(***************************************************************************)
Replacement == "U+FFFD"

DigitChars == <<"0", "1", "2", "3", "4", "5", "6", "7", "8", "9">>

TextChars == {"a", " ", "e'", "ko"}       \* a, space, U+00E9, U+3053
MarkerChars == {"[", "]", "-"} \cup Range(DigitChars)
Chars == TextChars \cup MarkerChars \cup {"\n"}

Utf8(c) ==
    CASE c = "a"   -> <<97>>
      [] c = " "   -> <<32>>
      [] c = "\n"  -> <<10>>
      [] c = "e'"  -> <<195, 169>>
      [] c = "ko"  -> <<227, 129, 147>>
      [] c = "["   -> <<91>>
      [] c = "]"   -> <<93>>
      [] c = "-"   -> <<45>>
      [] c = Replacement -> <<239, 191, 189>>
      [] OTHER     -> <<48 + (CHOOSE d \in 0..9 : DigitChars[d + 1] = c)>>

Encode(s) == Flatten([i \in DOMAIN s |-> Utf8(s[i])])

\* The character a complete, well-formed byte sequence stands for.
CharOf(bs) ==
    IF \E c \in Chars \cup {Replacement} : Utf8(c) = bs
    THEN CHOOSE c \in Chars \cup {Replacement} : Utf8(c) = bs
    ELSE "U+other"

IsContinuation(x) == x >= 128 /\ x <= 191

\* Number of continuation bytes a lead byte announces (0: not a lead byte).
Needed(x) ==
    IF x >= 194 /\ x <= 223 THEN 1
    ELSE IF x >= 224 /\ x <= 239 THEN 2
    ELSE IF x >= 240 /\ x <= 244 THEN 3
    ELSE 0

RECURSIVE ContinuationRun(_, _, _)
ContinuationRun(b, i, n) ==
    IF n = 0 \/ i > Len(b) \/ ~IsContinuation(b[i]) THEN 0
    ELSE 1 + ContinuationRun(b, i + 1, n - 1)

\* new TextDecoder().decode(bytes): the non-fatal decoder, which replaces
\* every ill-formed maximal subpart by U+FFFD.
RECURSIVE DecodeFrom(_, _)
DecodeFrom(b, i) ==
    IF i > Len(b) THEN <<>>
    ELSE IF b[i] < 128 THEN <<CharOf(<<b[i]>>)>> \o DecodeFrom(b, i + 1)
    ELSE IF Needed(b[i]) = 0 THEN <<Replacement>> \o DecodeFrom(b, i + 1)
    ELSE LET n == Needed(b[i])
             k == ContinuationRun(b, i + 1, n)
         IN  IF k = n
             THEN <<CharOf(SubSeq(b, i, i + n))>> \o DecodeFrom(b, i + n + 1)
             ELSE <<Replacement>> \o DecodeFrom(b, i + k + 1)

Decode(b) == DecodeFrom(b, 1)

(***************************************************************************)
(* Uint8Array.prototype.subarray(begin, end): negative indices count from  *)
(* the end, both are clamped to 0..length, an inverted range is empty.     *)
(***************************************************************************)
RelativeIndex(k, len) == IF k < 0 THEN Max2(len + k, 0) ELSE Min2(k, len)

subarray(bytes, begin, end) ==
    LET from == RelativeIndex(begin, Len(bytes))
        to   == RelativeIndex(end, Len(bytes))
    IN  SubSeq(bytes, from + 1, to)

(***************************************************************************)
(* insertMarkersByUtf8Index.  SpliceParts is the `parts` array after the   *)
(* loop and the final unshift: each element is tagged with where its bytes *)
(* come from ("text": a slice of responseBytes, "marker": an encoded       *)
(* marker).                                                                *)
(***************************************************************************)
RECURSIVE SpliceLoop(_, _, _, _, _)
SpliceLoop(responseBytes, insertions, k, lastIndex, parts) ==
    IF k > Len(insertions)
    THEN <<[kind |-> "text", bytes |-> subarray(responseBytes, 0, lastIndex)]>> \o parts
    ELSE LET insertion == insertions[k]
             position  == Min2(insertion.index, lastIndex)
         IN  SpliceLoop(responseBytes, insertions, k + 1, position,
                 << [kind |-> "marker", bytes |-> Encode(insertion.marker)],
                    [kind |-> "text", bytes |-> subarray(responseBytes, position, lastIndex)] >>
                 \o parts)

SpliceParts(text, insertions) ==
    LET responseBytes == Encode(text)
    IN  SpliceLoop(responseBytes, insertions, 1, Len(responseBytes), <<>>)

FinalBytes(parts) == Flatten([i \in DOMAIN parts |-> parts[i].bytes])

insertMarkersByUtf8Index(text, insertions) ==
    IF Len(insertions) = 0 THEN text
    ELSE Decode(FinalBytes(SpliceParts(text, insertions)))

(***************************************************************************)
(* String helpers: String.prototype.trim, Number-to-string, Array.join.    *)
(***************************************************************************)
Whitespace == {" ", "\n"}

RECURSIVE TrimStart(_)
TrimStart(s) ==
    IF s # <<>> /\ Head(s) \in Whitespace THEN TrimStart(Tail(s)) ELSE s

RECURSIVE TrimEnd(_)
TrimEnd(s) ==
    IF s # <<>> /\ s[Len(s)] \in Whitespace THEN TrimEnd(SubSeq(s, 1, Len(s) - 1)) ELSE s

Trim(s) == TrimEnd(TrimStart(s))

RECURSIVE NatToString(_)
NatToString(n) ==
    IF n < 10 THEN <<DigitChars[n + 1]>>
    ELSE NatToString(n \div 10) \o <<DigitChars[(n % 10) + 1]>>

NumberToString(n) == IF n < 0 THEN <<"-">> \o NatToString(0 - n) ELSE NatToString(n)

RECURSIVE Join(_, _)
Join(ss, sep) ==
    IF ss = <<>> THEN <<>>
    ELSE IF Len(ss) = 1 THEN Head(ss)
    ELSE Head(ss) \o sep \o Join(Tail(ss), sep)

(***************************************************************************)
(* The Gemini response formatter (geminisearch plugin).                    *)
(*   response  [candidates: Seq(candidate)]                                *)
(*   candidate [hasParts, parts: Seq([thought, text]), hasMeta,            *)
(*              hasChunks, chunks, hasSupports, supports]                  *)
(*   chunk     [hasWeb, title, uri]      (title, uri: a string or Undef)   *)
(*   support   [hasSegment, hasEndIndex, endIndex, hasIndices, indices]    *)
(***************************************************************************)
NoResult == [llmContent |-> Undef, returnDisplay |-> Undef,
             hasSources |-> FALSE, sources |-> <<>>,
             hasError |-> FALSE, error |-> [message |-> Undef, type |-> Undef]]

HasFirstCandidate(response) == Len(response.candidates) > 0

FirstCandidate(response) == response.candidates[1]

RECURSIVE CombineParts(_, _)
CombineParts(parts, combined) ==
    IF parts = <<>> THEN combined
    ELSE LET part == Head(parts)
         IN  IF part.thought THEN CombineParts(Tail(parts), combined)
             ELSE IF part.text # Undef THEN CombineParts(Tail(parts), combined \o part.text)
             ELSE CombineParts(Tail(parts), combined)

\* A variant that forgets to skip thought parts.
extractResponseTextWithThoughts(response) ==
    IF ~HasFirstCandidate(response) \/ ~FirstCandidate(response).hasParts
       \/ Len(FirstCandidate(response).parts) = 0
    THEN Undef
    ELSE LET parts == FirstCandidate(response).parts
             combined == Flatten([i \in DOMAIN parts |->
                             IF parts[i].text # Undef THEN parts[i].text ELSE <<>>])
         IN  IF combined = <<>> THEN Undef ELSE combined

\* A variant that reads the parts of every candidate.
extractResponseTextAllCandidates(response) ==
    LET combined ==
            Flatten([c \in DOMAIN response.candidates |->
                        IF response.candidates[c].hasParts
                        THEN CombineParts(response.candidates[c].parts, <<>>) ELSE <<>>])
    IN  IF combined = <<>> THEN Undef ELSE combined

extractResponseText(response) ==
    IF ~HasFirstCandidate(response) \/ ~FirstCandidate(response).hasParts
       \/ Len(FirstCandidate(response).parts) = 0
    THEN Undef
    ELSE LET combined == CombineParts(FirstCandidate(response).parts, <<>>)
         IN  IF combined = <<>> THEN Undef ELSE combined

\* extractGroundingMetadata: hasMeta tells whether candidates[0] carries one.
HasGroundingMetadata(response) ==
    HasFirstCandidate(response) /\ FirstCandidate(response).hasMeta

RECURSIVE SortAscending(_)
SortAscending(S) ==
    IF S = {} THEN <<>>
    ELSE LET least == CHOOSE x \in S : \A y \in S : x <= y
         IN  <<least>> \o SortAscending(S \ {least})

MarkerOf(numbers) ==
    Flatten([i \in DOMAIN numbers |-> <<"[">> \o NumberToString(numbers[i]) \o <<"]">>])

\* Array.prototype.sort((a, b) => b.index - a.index): stable, descending.
RECURSIVE InsertDescending(_, _)
InsertDescending(sorted, x) ==
    IF sorted = <<>> THEN <<x>>
    ELSE IF Head(sorted).index >= x.index
         THEN <<Head(sorted)>> \o InsertDescending(Tail(sorted), x)
         ELSE <<x>> \o sorted

RECURSIVE SortDescending(_, _)
SortDescending(rest, sorted) ==
    IF rest = <<>> THEN sorted
    ELSE SortDescending(Tail(rest), InsertDescending(sorted, Head(rest)))

\* The loop of buildCitationInsertions; `numbers` keeps the citation numbers
\* the marker was rendered from.
RECURSIVE CollectInsertions(_)
CollectInsertions(supports) ==
    IF supports = <<>> THEN <<>>
    ELSE LET support == Head(supports)
         IN  IF ~support.hasSegment \/ ~support.hasEndIndex
                \/ ~support.hasIndices \/ Len(support.indices) = 0
             THEN CollectInsertions(Tail(supports))
             ELSE LET uniqueSorted == SortAscending(Range(support.indices))
                      numbers == [i \in DOMAIN uniqueSorted |-> uniqueSorted[i] + 1]
                  IN  <<[index |-> support.endIndex, numbers |-> numbers,
                         marker |-> MarkerOf(numbers)]>>
                      \o CollectInsertions(Tail(supports))

\* A variant that tests endIndex for truthiness, and so skips endIndex 0.
buildCitationInsertionsFalsyEndIndex(candidate) ==
    IF ~candidate.hasSupports \/ Len(candidate.supports) = 0 THEN <<>>
    ELSE SortDescending(SelectSeq(CollectInsertions(candidate.supports),
                                  LAMBDA insertion : insertion.index # 0), <<>>)

buildCitationInsertions(candidate) ==
    IF ~candidate.hasSupports \/ Len(candidate.supports) = 0 THEN <<>>
    ELSE SortDescending(CollectInsertions(candidate.supports), <<>>)

SourceLine(source, index) ==
    LET title == IF source.hasWeb /\ source.title # Undef /\ source.title # <<>>
                 THEN source.title ELSE <<"Untitled">>
        uri   == IF source.hasWeb /\ source.uri # Undef /\ source.uri # <<>>
                 THEN source.uri ELSE <<"No URI">>
    IN  <<"[">> \o NumberToString(index + 1) \o <<"]", " ">> \o title
        \o <<" ", "(">> \o uri \o <<")">>

\* A variant that lists every URL once, at its first position.
SourceLinesDeduplicated(sources) ==
    LET first == {i \in DOMAIN sources :
                     \A j \in 1..(i - 1) : sources[j].uri # sources[i].uri}
        kept  == SortAscending(first)
    IN  [k \in DOMAIN kept |-> SourceLine(sources[kept[k]], k - 1)]

SourceLines(sources) == [i \in DOMAIN sources |-> SourceLine(sources[i], i - 1)]

SourcesBlock(sources) ==
    <<"\n", "\n", "Sources:", "\n">> \o Join(SourceLines(sources), <<"\n">>)

\* A variant that looks at the metadata only, not at the chunk list.
HasSourcesWithoutChunks(response) == HasGroundingMetadata(response)

HasSources(response) ==
    /\ HasGroundingMetadata(response)
    /\ FirstCandidate(response).hasChunks
    /\ Len(FirstCandidate(response).chunks) > 0

\* The insertions formatWebSearchResponse hands to the splicer.
InsertionsUsed(response) ==
    LET responseText == extractResponseText(response)
    IN  IF responseText = Undef \/ Trim(responseText) = <<>> THEN <<>>
        ELSE IF HasSources(response) THEN buildCitationInsertions(FirstCandidate(response))
        ELSE <<>>

ResultPrefix(query) == <<"Web search results for ", "\"">> \o query \o <<"\"", ":", "\n", "\n">>

FallbackMessage(query) ==
    <<"No search results or information found for query: ", "\"">> \o query \o <<"\"">>

\* modifiedText: the answer with its markers and Sources block.
ModifiedText(response) ==
    LET responseText == extractResponseText(response)
        hasSources == HasSources(response)
        insertions == InsertionsUsed(response)
        spliced    == IF hasSources /\ Len(insertions) > 0
                      THEN insertMarkersByUtf8Index(responseText, insertions)
                      ELSE responseText
    IN  IF hasSources
        THEN spliced \o SourcesBlock(FirstCandidate(response).chunks)
        ELSE spliced

formatWebSearchResponse(response, query) ==
    LET responseText == extractResponseText(response)
    IN  IF responseText = Undef \/ Trim(responseText) = <<>>
        THEN [NoResult EXCEPT !.llmContent = FallbackMessage(query),
                              !.returnDisplay = <<"No information found.">>]
        ELSE [NoResult EXCEPT
                 !.llmContent = ResultPrefix(query) \o ModifiedText(response),
                 !.returnDisplay = <<"Search results for ", "\"">> \o query
                                   \o <<"\"", " returned.">>,
                 !.hasSources = HasSources(response),
                 !.sources = IF HasSources(response)
                             THEN FirstCandidate(response).chunks ELSE <<>>]

(***************************************************************************)
(* Auth values and getAuth callbacks.                                      *)
(*   auth     [type: "none" | "api" | "oauth" | "wellknown", secret]       *)
(*            ("none" is a getAuth that resolves to undefined)             *)
(*   callback [behaviour: "unregistered" | "resolves" | "rejects", auth,   *)
(*             owner: the provider the host made the callback for]         *)
(***************************************************************************)
GOOGLE_PROVIDER_ID == "google"
OPENAI_PROVIDER_ID == "openai"
OPENROUTER_PROVIDER_ID == "openrouter"
NoProvider == "<none>"

SupportedProviders == {GOOGLE_PROVIDER_ID, OPENAI_PROVIDER_ID, OPENROUTER_PROVIDER_ID}

NoAuth == [type |-> "none", secret |-> Undef]
ApiAuth(key) == [type |-> "api", secret |-> key]
OAuthAuth(access) == [type |-> "oauth", secret |-> access]
WellKnownAuth(token) == [type |-> "wellknown", secret |-> token]

Unregistered == [behaviour |-> "unregistered", auth |-> NoAuth, owner |-> NoProvider]
Resolves(auth, owner) == [behaviour |-> "resolves", auth |-> auth, owner |-> owner]
Rejects(owner) == [behaviour |-> "rejects", auth |-> NoAuth, owner |-> owner]

\* What a handler did: the error it threw or the string it returned, the
\* requests it sent and the getAuth callbacks it called.
Threw(message, sent, asked) ==
    [thrown |-> message, returned |-> Undef, requests |-> sent, authAsked |-> asked]
Returned(text, sent, asked) ==
    [thrown |-> Undef, returned |-> text, requests |-> sent, authAsked |-> asked]

\* A fetch: where it goes, the credential it carries and whether it was
\* given the invocation's abort signal.
Request(endpoint, credential, signal) ==
    [endpoint |-> endpoint, credential |-> credential, signal |-> signal]

Quoted(s) == <<"\"">> \o s \o <<"\"">>

\* The character U+0060, which a TLA+ string cannot hold.
Backtick == "U+0060"

(***************************************************************************)
(* geminisearch plugin (index.ts of the Gemini-only package).              *)
(***************************************************************************)
extractApiKey(authDetails) ==
    IF authDetails.type # "api" THEN Undef
    ELSE IF Trim(authDetails.secret) = <<>> THEN Undef
    ELSE Trim(authDetails.secret)

\* Variant: the environment variable is preferred to the stored key.
resolveGeminiApiKeyEnvFirst(storedKey, envKey) ==
    IF envKey # Undef /\ Trim(envKey) # <<>> THEN Trim(envKey)
    ELSE IF storedKey # Undef /\ Trim(storedKey) # <<>> THEN Trim(storedKey)
    ELSE Undef

resolveGeminiApiKey(storedKey, envKey) ==
    IF storedKey # Undef /\ Trim(storedKey) # <<>> THEN Trim(storedKey)
    ELSE IF envKey # Undef /\ Trim(envKey) # <<>> THEN Trim(envKey)
    ELSE Undef

\* Variant: the details are reported in error.message only.
buildErrorResultWithoutDetails(message, code, details) ==
    [NoResult EXCEPT
        !.llmContent = <<"Error: ">> \o message,
        !.returnDisplay = message,
        !.hasError = TRUE,
        !.error = [message |-> IF details # Undef THEN details ELSE message,
                   type |-> code]]

buildErrorResult(message, code, details) ==
    [NoResult EXCEPT
        !.llmContent = IF details # Undef /\ details # <<>>
                       THEN <<"Error: ">> \o message \o <<"\n", "\n", "Details: ">> \o details
                       ELSE <<"Error: ">> \o message,
        !.returnDisplay = message,
        !.hasError = TRUE,
        !.error = [message |-> IF details # Undef THEN details ELSE message,
                   type |-> code]]

\* What the mocked/real SDK call of runGeminiWebSearch ends with.
SdkRejects(net) == net.kind = "error"

\* Variant: the SDK call is not wrapped in try/catch.
geminisearchExecuteWithoutCatch(args, storedKey, envKey, net) ==
    LET query == IF args.query = Undef THEN Undef ELSE Trim(args.query)
        apiKey == resolveGeminiApiKey(storedKey, envKey)
    IN  IF query = Undef \/ query = <<>>
        THEN [result |-> buildErrorResult(<<"The 'query' parameter cannot be empty.">>,
                                          <<"INVALID_QUERY">>, Undef),
              requests |-> <<>>, thrown |-> Undef]
        ELSE IF apiKey = Undef
        THEN [result |-> buildErrorResult(
                  <<"Gemini web search is not configured. Please log in to the Google provider via ",
                    Backtick, "opencode auth login", Backtick, " or set GEMINI_API_KEY.">>,
                  <<"MISSING_GEMINI_API_KEY">>, Undef),
              requests |-> <<>>, thrown |-> Undef]
        ELSE IF SdkRejects(net)
        THEN [result |-> NoResult,
              requests |-> <<Request("generateContent", apiKey, TRUE)>>, thrown |-> net.message]
        ELSE [result |-> formatWebSearchResponse(net.response, query),
              requests |-> <<Request("generateContent", apiKey, TRUE)>>, thrown |-> Undef]

\* geminisearch execute: the result it serialises, the SDK calls it made and
\* the error it lets escape, if any.
geminisearchExecute(args, storedKey, envKey, net) ==
    LET query == IF args.query = Undef THEN Undef ELSE Trim(args.query)
        apiKey == resolveGeminiApiKey(storedKey, envKey)
    IN  IF query = Undef \/ query = <<>>
        THEN [result |-> buildErrorResult(<<"The 'query' parameter cannot be empty.">>,
                                          <<"INVALID_QUERY">>, Undef),
              requests |-> <<>>, thrown |-> Undef]
        ELSE IF apiKey = Undef
        THEN [result |-> buildErrorResult(
                  <<"Gemini web search is not configured. Please log in to the Google provider via ",
                    Backtick, "opencode auth login", Backtick, " or set GEMINI_API_KEY.">>,
                  <<"MISSING_GEMINI_API_KEY">>, Undef),
              requests |-> <<>>, thrown |-> Undef]
        ELSE IF SdkRejects(net)
        THEN [result |-> buildErrorResult(
                  <<"Gemini web search is currently unavailable. Please check your Gemini configuration and try again.">>,
                  <<"GEMINI_WEB_SEARCH_FAILED">>,
                  <<"Gemini web search request failed: ">> \o net.message),
              requests |-> <<Request("generateContent", apiKey, TRUE)>>, thrown |-> Undef]
        ELSE [result |-> formatWebSearchResponse(net.response, query),
              requests |-> <<Request("generateContent", apiKey, TRUE)>>, thrown |-> Undef]

(***************************************************************************)
(* websearch_cited plugin: configuration.                                  *)
(*   config [hasProvider, provider: Seq(entry)]  entries as written        *)
(*   entry  [id, isObject, optionsIsRecord, hasCited, citedIsRecord,       *)
(*           model, options, modelsIsRecord, models]                       *)
(*   a string-valued option is a string, Undef (key absent) or NonString   *)
(***************************************************************************)
NonString == <<"<non-string>">>

IsString(v) == v # Undef /\ v # NonString

NoOptions ==
    [reasoningEffort |-> Undef, reasoningSummary |-> Undef, textVerbosity |-> Undef,
     store |-> "absent", include |-> [kind |-> "absent", items |-> <<>>]]

\* {...base, ...over}: a key of `over` hides the key of `base`.
MergeOptions(base, over) ==
    [reasoningEffort  |-> IF over.reasoningEffort # Undef
                          THEN over.reasoningEffort ELSE base.reasoningEffort,
     reasoningSummary |-> IF over.reasoningSummary # Undef
                          THEN over.reasoningSummary ELSE base.reasoningSummary,
     textVerbosity    |-> IF over.textVerbosity # Undef
                          THEN over.textVerbosity ELSE base.textVerbosity,
     store            |-> IF over.store # "absent" THEN over.store ELSE base.store,
     include          |-> IF over.include.kind # "absent" THEN over.include ELSE base.include]

EmptyOpenAIConfig ==
    [reasoningEffort |-> Undef, reasoningSummary |-> Undef, textVerbosity |-> Undef,
     store |-> "absent", include |-> <<>>, hasInclude |-> FALSE]

TrimmedOption(v) == IF IsString(v) /\ Trim(v) # <<>> THEN Trim(v) ELSE Undef

RECURSIVE FilterStrings(_)
FilterStrings(items) ==
    IF items = <<>> THEN <<>>
    ELSE IF IsString(Head(items)) /\ Trim(Head(items)) # <<>>
         THEN <<Head(items)>> \o FilterStrings(Tail(items))
         ELSE FilterStrings(Tail(items))

RECURSIVE ModelEntry(_, _)
ModelEntry(models, model) ==
    IF models = <<>> THEN [name |-> model, isRecord |-> FALSE,
                           optionsIsRecord |-> FALSE, options |-> NoOptions]
    ELSE IF Head(models).name = model THEN Head(models)
    ELSE ModelEntry(Tail(models), model)

\* parseOpenAIOptions(providerConfig, model); found = FALSE: config.provider?.openai
\* is undefined.
parseOpenAIOptions(found, providerConfig, model) ==
    IF ~found \/ ~providerConfig.isObject THEN EmptyOpenAIConfig
    ELSE LET baseOptions == IF providerConfig.optionsIsRecord
                            THEN providerConfig.options ELSE NoOptions
             entry == ModelEntry(providerConfig.models, model)
             modelOptions == IF model # Undef /\ model # <<>> /\ providerConfig.modelsIsRecord
                                /\ entry.isRecord /\ entry.optionsIsRecord
                             THEN entry.options ELSE NoOptions
             merged == MergeOptions(baseOptions, modelOptions)
             filtered == IF merged.include.kind = "array"
                         THEN FilterStrings(merged.include.items) ELSE <<>>
         IN  [reasoningEffort  |-> TrimmedOption(merged.reasoningEffort),
              reasoningSummary |-> TrimmedOption(merged.reasoningSummary),
              textVerbosity    |-> TrimmedOption(merged.textVerbosity),
              store            |-> IF merged.store \in {"true", "false"}
                                   THEN merged.store ELSE "absent",
              include          |-> filtered,
              hasInclude       |-> Len(filtered) > 0]

NoSelection == [hasSelected |-> FALSE, providerID |-> NoProvider, model |-> Undef, error |-> Undef]

\* Variant: firstError = message, so the last invalid entry's message wins.
RECURSIVE FindFirstLoopLastError(_, _)
FindFirstLoopLastError(entries, firstError) ==
    IF entries = <<>> THEN [NoSelection EXCEPT !.error = firstError]
    ELSE LET e == Head(entries)
         IN  IF ~e.isObject \/ ~e.optionsIsRecord \/ ~e.hasCited
             THEN FindFirstLoopLastError(Tail(entries), firstError)
             ELSE IF ~e.citedIsRecord
             THEN FindFirstLoopLastError(Tail(entries),
                      <<"Invalid websearch_cited configuration for provider ">>
                      \o Quoted(<<e.id>>) \o <<".">>)
             ELSE IF ~IsString(e.model) \/ Trim(e.model) = <<>>
             THEN FindFirstLoopLastError(Tail(entries),
                      <<"Missing websearch_cited model for provider ">>
                      \o Quoted(<<e.id>>) \o <<".">>)
             ELSE IF e.id \notin SupportedProviders
             THEN FindFirstLoopLastError(Tail(entries),
                      <<"Unsupported provider ">> \o Quoted(<<e.id>>)
                      \o <<" for websearch_cited.">>)
             ELSE [hasSelected |-> TRUE, providerID |-> e.id,
                   model |-> Trim(e.model), error |-> Undef]

\* Variant: the error of a skipped entry is still reported once a later
\* entry is selected.
RECURSIVE FindFirstLoopKeepingError(_, _)
FindFirstLoopKeepingError(entries, firstError) ==
    IF entries = <<>> THEN [NoSelection EXCEPT !.error = firstError]
    ELSE LET e == Head(entries)
             unlessSet(message) == IF firstError = Undef THEN message ELSE firstError
         IN  IF ~e.isObject \/ ~e.optionsIsRecord \/ ~e.hasCited
             THEN FindFirstLoopKeepingError(Tail(entries), firstError)
             ELSE IF ~e.citedIsRecord
             THEN FindFirstLoopKeepingError(Tail(entries),
                      unlessSet(<<"Invalid websearch_cited configuration for provider ">>
                                \o Quoted(<<e.id>>) \o <<".">>))
             ELSE IF ~IsString(e.model) \/ Trim(e.model) = <<>>
             THEN FindFirstLoopKeepingError(Tail(entries),
                      unlessSet(<<"Missing websearch_cited model for provider ">>
                                \o Quoted(<<e.id>>) \o <<".">>))
             ELSE IF e.id \notin SupportedProviders
             THEN FindFirstLoopKeepingError(Tail(entries),
                      unlessSet(<<"Unsupported provider ">> \o Quoted(<<e.id>>)
                                \o <<" for websearch_cited.">>))
             ELSE [hasSelected |-> TRUE, providerID |-> e.id,
                   model |-> Trim(e.model), error |-> firstError]

RECURSIVE FindFirstLoop(_, _)
FindFirstLoop(entries, firstError) ==
    IF entries = <<>> THEN [NoSelection EXCEPT !.error = firstError]
    ELSE LET e == Head(entries)
             unlessSet(message) == IF firstError = Undef THEN message ELSE firstError
         IN  IF ~e.isObject \/ ~e.optionsIsRecord \/ ~e.hasCited
             THEN FindFirstLoop(Tail(entries), firstError)
             ELSE IF ~e.citedIsRecord
             THEN FindFirstLoop(Tail(entries),
                      unlessSet(<<"Invalid websearch_cited configuration for provider ">>
                                \o Quoted(<<e.id>>) \o <<".">>))
             ELSE IF ~IsString(e.model) \/ Trim(e.model) = <<>>
             THEN FindFirstLoop(Tail(entries),
                      unlessSet(<<"Missing websearch_cited model for provider ">>
                                \o Quoted(<<e.id>>) \o <<".">>))
             ELSE IF e.id \notin SupportedProviders
             THEN FindFirstLoop(Tail(entries),
                      unlessSet(<<"Unsupported provider ">> \o Quoted(<<e.id>>)
                                \o <<" for websearch_cited.">>))
             ELSE [hasSelected |-> TRUE, providerID |-> e.id,
                   model |-> Trim(e.model), error |-> Undef]

\* The one integer-like key the configurations of this model use.
IntegerLikeKeys == {"7"}

\* Object.entries(providers): integer-like keys first, then the others in
\* the order they were written (one integer-like key: nothing to sort).
ObjectEntries(written) ==
    SelectSeq(written, LAMBDA e : e.id \in IntegerLikeKeys)
    \o SelectSeq(written, LAMBDA e : e.id \notin IntegerLikeKeys)

findFirstWebsearchCitedConfig(config) ==
    IF ~config.hasProvider THEN NoSelection
    ELSE FindFirstLoop(ObjectEntries(config.provider), Undef)

\* config.provider?.openai
OpenAIEntries(config) ==
    IF ~config.hasProvider THEN <<>>
    ELSE SelectSeq(config.provider, LAMBDA e : e.id = OPENAI_PROVIDER_ID)

\* The closure state the config hook leaves behind.
ConfigHookState(config) ==
    LET found == findFirstWebsearchCitedConfig(config)
        openai == OpenAIEntries(config)
    IN  [selectedProvider |-> IF found.hasSelected THEN found.providerID ELSE NoProvider,
         selectedModel |-> IF found.hasSelected THEN found.model ELSE Undef,
         openaiConfig |-> IF found.hasSelected /\ found.providerID = OPENAI_PROVIDER_ID
                          THEN parseOpenAIOptions(openai # <<>>,
                                   IF openai # <<>> THEN openai[1] ELSE found, found.model)
                          ELSE EmptyOpenAIConfig,
         configError |-> found.error]

(***************************************************************************)
(* websearch_cited plugin: provider clients.  `net` is what the network     *)
(* answers: [kind: "ok" | "error", response, text, message].                *)
(***************************************************************************)
\* formatWebSearchResponse of the websearch_cited Google client: a string.
formatWebSearchResponseText(response, query) ==
    LET responseText == extractResponseText(response)
    IN  IF responseText = Undef \/ Trim(responseText) = <<>>
        THEN FallbackMessage(query)
        ELSE ModifiedText(response)

NoResultsMessage(query) ==
    <<"Web search completed for ">> \o Quoted(query) \o <<", but no results were returned.">>

MissingAuthMessage(providerID) == <<"Missing auth for provider ">> \o Quoted(<<providerID>>)

\* createWebSearchClientForGoogle(auth, model).search(query) for auth
\* [type, secret]: an API key, or OAuth auth that has an access token but
\* no refresh field, which createGeminiOAuthWebSearchClient refuses.
googleClientSearch(auth, query, asked, net) ==
    IF auth.type = "api"
    THEN IF extractApiKey(auth) = Undef
         THEN Threw(<<"Missing Google API key">>, <<>>, asked)
         ELSE LET sent == <<Request("generativelanguage.googleapis.com", extractApiKey(auth), TRUE)>>
              IN  IF net.kind = "error" THEN Threw(net.message, sent, asked)
                  ELSE Returned(formatWebSearchResponseText(net.response, Trim(query)), sent, asked)
    ELSE IF auth.type = "oauth"
    THEN Threw(<<"Missing Google OAuth refresh token">>, <<>>, asked)
    ELSE Threw(<<"Unsupported auth type for Google web search">>, <<>>, asked)

\* Variant: the credentials are resolved before the query is validated.
googleSearchAuthFirst(model, query, getAuth, net) ==
    LET normalizedQuery == Trim(query)
        asked == {getAuth.owner}
    IN  IF Trim(model) = <<>> THEN Threw(<<"Invalid Google web search model">>, <<>>, {})
        ELSE IF getAuth.behaviour = "rejects" THEN Threw(<<"getAuth rejected">>, <<>>, asked)
        ELSE IF getAuth.auth.type = "none"
        THEN Threw(MissingAuthMessage(GOOGLE_PROVIDER_ID), <<>>, asked)
        ELSE IF normalizedQuery = <<>> THEN Threw(<<"Query must not be empty">>, <<>>, asked)
        ELSE googleClientSearch(getAuth.auth, normalizedQuery, asked, net)

\* createGoogleWebsearchClient(model).search(query, abortSignal, getAuth)
googleSearch(model, query, getAuth, net) ==
    LET normalizedQuery == Trim(query)
        asked == {getAuth.owner}
    IN  IF Trim(model) = <<>> THEN Threw(<<"Invalid Google web search model">>, <<>>, {})
        ELSE IF normalizedQuery = <<>> THEN Threw(<<"Query must not be empty">>, <<>>, {})
        ELSE IF getAuth.behaviour = "rejects" THEN Threw(<<"getAuth rejected">>, <<>>, asked)
        ELSE IF getAuth.auth.type = "none"
        THEN Threw(MissingAuthMessage(GOOGLE_PROVIDER_ID), <<>>, asked)
        ELSE googleClientSearch(getAuth.auth, normalizedQuery, asked, net)

\* getAccessToken (openai.ts)
getAccessToken(auth) == Trim(auth.secret)

\* runOpenAIWebSearch
runOpenAIWebSearch(query, auth, asked, net) ==
    IF getAccessToken(auth) = <<>>
    THEN Threw(IF auth.type = "oauth" THEN <<"Missing OpenAI OAuth access token">>
               ELSE IF auth.type = "api" THEN <<"Missing OpenAI API key">>
               ELSE <<"Missing OpenAI token">>, <<>>, asked)
    ELSE LET url  == IF auth.type = "oauth" THEN "chatgpt.com/backend-api/codex/responses"
                     ELSE "api.openai.com/v1/responses"
             sent == <<Request(url, getAccessToken(auth), TRUE)>>
         IN  IF net.kind = "error" THEN Threw(net.message, sent, asked)
             ELSE IF net.text = Undef \/ Trim(net.text) = <<>>
             THEN Returned(NoResultsMessage(query), sent, asked)
             ELSE Returned(net.text, sent, asked)

\* createOpenAIWebsearchClient(model, config).search(query, abortSignal, getAuth)
openaiSearch(model, query, getAuth, net) ==
    LET normalizedQuery == Trim(query)
        asked == {getAuth.owner}
    IN  IF Trim(model) = <<>> THEN Threw(<<"Invalid OpenAI web search model">>, <<>>, {})
        ELSE IF normalizedQuery = <<>> THEN Threw(<<"Query must not be empty">>, <<>>, {})
        ELSE IF getAuth.behaviour = "rejects" THEN Threw(<<"getAuth rejected">>, <<>>, asked)
        ELSE IF getAuth.auth.type = "none"
        THEN Threw(MissingAuthMessage(OPENAI_PROVIDER_ID), <<>>, asked)
        ELSE runOpenAIWebSearch(normalizedQuery, getAuth.auth, asked, net)

\* extractOutputText's inner loop: the text of the output_text parts of one
\* message's content, concatenated.
RECURSIVE CombineContent(_)
CombineContent(content) ==
    IF content = <<>> THEN <<>>
    ELSE (IF Head(content).type = "output_text" THEN Head(content).text ELSE <<>>)
         \o CombineContent(Tail(content))

\* extractOutputText's outer loop over root.output.
RECURSIVE CombineOutput(_)
CombineOutput(output) ==
    IF output = <<>> THEN <<>>
    ELSE (IF Head(output).type = "message" /\ Head(output).hasContent
          THEN CombineContent(Head(output).content) ELSE <<>>)
         \o CombineOutput(Tail(output))

\* extractOutputText(payload) for a payload that is an object
extractOutputText(payload) ==
    IF payload.output_text # Undef /\ Trim(payload.output_text) # <<>>
    THEN payload.output_text
    ELSE IF ~payload.hasOutput \/ payload.output = <<>> THEN Undef
    ELSE IF CombineOutput(payload.output) = <<>> THEN Undef
    ELSE CombineOutput(payload.output)

\* runOpenRouterWebSearch, with getApiKey
runOpenRouterWebSearch(query, auth, asked, net) ==
    IF auth.type # "api"
    THEN Threw(<<"OpenRouter only supports API key authentication">>, <<>>, asked)
    ELSE IF Trim(auth.secret) = <<>> THEN Threw(<<"Missing OpenRouter API key">>, <<>>, asked)
    ELSE LET sent == <<Request("openrouter.ai/api/v1/responses", Trim(auth.secret), TRUE)>>
         IN  IF net.kind = "error" THEN Threw(net.message, sent, asked)
             ELSE IF net.text = Undef \/ Trim(net.text) = <<>>
             THEN Returned(NoResultsMessage(query), sent, asked)
             ELSE Returned(net.text, sent, asked)

\* createOpenRouterWebsearchClient(model).search(query, abortSignal, getAuth)
openrouterSearch(model, query, getAuth, net) ==
    LET normalizedQuery == Trim(query)
        asked == {getAuth.owner}
    IN  IF Trim(model) = <<>> THEN Threw(<<"Invalid OpenRouter web search model">>, <<>>, {})
        ELSE IF normalizedQuery = <<>> THEN Threw(<<"Query must not be empty">>, <<>>, {})
        ELSE IF getAuth.behaviour = "rejects" THEN Threw(<<"getAuth rejected">>, <<>>, asked)
        ELSE IF getAuth.auth.type = "none"
        THEN Threw(MissingAuthMessage(OPENROUTER_PROVIDER_ID), <<>>, asked)
        ELSE runOpenRouterWebSearch(normalizedQuery, getAuth.auth, asked, net)

clientSearch(providerID, model, query, getAuth, net) ==
    IF providerID = OPENAI_PROVIDER_ID THEN openaiSearch(model, query, getAuth, net)
    ELSE IF providerID = OPENROUTER_PROVIDER_ID THEN openrouterSearch(model, query, getAuth, net)
    ELSE googleSearch(model, query, getAuth, net)

(***************************************************************************)
(* websearch_cited plugin: the Google OAuth client (Code Assist).          *)
(* Times are milliseconds.  expires is [kind: "missing" | "nonNumber" |    *)
(* "nonFinite" | "number", value]; an optional number is [has, value].     *)
(***************************************************************************)
REFRESH_BUFFER_MS == 60000

ANTIGRAVITY_DEFAULT_PROJECT_ID == <<"rising-fact-p41fc">>

\* Endpoints of the OAuth client are <<base, path>>.
OAUTH_TOKEN_ENDPOINT == <<"oauth2.googleapis.com", "/token">>

GEMINI_CODE_ASSIST_GENERATE_PATH == "/v1internal:generateContent"

GEMINI_CODE_ASSIST_LOAD_PATH == "/v1internal:loadCodeAssist"

CODE_ASSIST_GENERATE_ENDPOINTS == <<"daily", "autopush", "prod">>

CODE_ASSIST_LOAD_ENDPOINTS == <<"prod", "daily", "autopush">>

\* Array.from(new Set(items)): first occurrences, in order.
RECURSIVE Unique(_, _)
Unique(items, seen) ==
    IF items = <<>> THEN <<>>
    ELSE IF Head(items) \in seen THEN Unique(Tail(items), seen)
    ELSE <<Head(items)>> \o Unique(Tail(items), seen \cup {Head(items)})

loadEndpoints == Unique(CODE_ASSIST_LOAD_ENDPOINTS \o CODE_ASSIST_GENERATE_ENDPOINTS, {})

\* s.split("|")
RECURSIVE SplitOnBar(_, _)
SplitOnBar(s, current) ==
    IF s = <<>> THEN <<current>>
    ELSE IF Head(s) = "|" THEN <<current>> \o SplitOnBar(Tail(s), <<>>)
    ELSE SplitOnBar(Tail(s), Append(current, Head(s)))

parseRefresh(refresh) ==
    LET normalized == Trim(refresh)
        pieces == SplitOnBar(normalized, <<>>)
        piece(i) == IF i <= Len(pieces) THEN Trim(pieces[i]) ELSE <<>>
    IN  IF normalized = <<>>
        THEN [refreshToken |-> <<>>, projectId |-> Undef, managedProjectId |-> Undef]
        ELSE [refreshToken |-> piece(1),
              projectId |-> IF piece(2) = <<>> THEN Undef ELSE piece(2),
              managedProjectId |-> IF piece(3) = <<>> THEN Undef ELSE piece(3)]

NoNumber == [has |-> FALSE, value |-> 0]

parseExpires(expires) ==
    IF expires.kind = "number" THEN [has |-> TRUE, value |-> expires.value] ELSE NoNumber

\* Variant: the token counts as expired only once its expiry has passed.
accessTokenExpiredWithoutBuffer(accessToken, expiresAt, time) ==
    IF accessToken = <<>> \/ ~expiresAt.has THEN TRUE
    ELSE expiresAt.value <= time

accessTokenExpired(accessToken, expiresAt, time) ==
    IF accessToken = <<>> \/ ~expiresAt.has THEN TRUE
    ELSE expiresAt.value <= time + REFRESH_BUFFER_MS

NoCachedToken == [has |-> FALSE, accessToken |-> <<>>, expiresAt |-> 0]

\* Variant: the cache is never consulted.
getCachedAccessIgnoringCache(cache, refreshToken, time) ==
    [cached |-> NoCachedToken, cache |-> cache]

\* getCachedAccess: the entry it returns and the cache it leaves.
getCachedAccess(cache, refreshToken, time) ==
    IF refreshToken \notin DOMAIN cache \/ ~cache[refreshToken].has
    THEN [cached |-> NoCachedToken, cache |-> cache]
    ELSE IF cache[refreshToken].expiresAt <= time + REFRESH_BUFFER_MS
    THEN [cached |-> NoCachedToken,
          cache |-> [cache EXCEPT ![refreshToken] = NoCachedToken]]
    ELSE [cached |-> cache[refreshToken], cache |-> cache]

\* cacheToken(refreshToken, accessToken, expiresAt): the cache it leaves.
cacheToken(cache, refreshToken, accessToken, expiresAt) ==
    IF refreshToken = <<>> \/ accessToken = <<>> THEN cache
    ELSE IF expiresAt.has /\ refreshToken \in DOMAIN cache
    THEN [cache EXCEPT ![refreshToken] =
              [has |-> TRUE, accessToken |-> accessToken, expiresAt |-> expiresAt.value]]
    ELSE cache

\* requestToken: expiresAt from the payload's expires_in and the request time.
TokenExpiresAt(expiresIn, requestTime) ==
    LET seconds == IF expiresIn.has THEN expiresIn.value ELSE 3600
    IN  IF seconds > 0 THEN requestTime + seconds * 1000 ELSE requestTime

\* extractManagedProjectId(payload); payload [isNull, projectKind, project]
extractManagedProjectId(payload) ==
    IF payload.isNull THEN Undef
    ELSE IF payload.projectKind \in {"string", "object"} /\ payload.project # Undef
            /\ Trim(payload.project) # <<>>
    THEN payload.project
    ELSE Undef

\* The locals of an OAuth search; pc is the await it is suspended at.
NoOAuthSearch ==
    [pc |-> "idle", auth |-> [access |-> Undef, refresh |-> Undef,
                              expires |-> [kind |-> "missing", value |-> 0]],
     query |-> Undef, startTime |-> 0, cachedAtStart |-> NoCachedToken,
     refreshToken |-> <<>>, projectId |-> Undef, managedProjectId |-> Undef,
     accessToken |-> <<>>, expiresAt |-> NoNumber, refreshedThisRequest |-> FALSE,
     requestTime |-> 0, effectiveProjectId |-> Undef,
     attempt |-> 0, endpoint |-> 0, lastError |-> [has |-> FALSE, status |-> 0, message |-> Undef],
     firstAttempt |-> [has |-> FALSE, ok |-> FALSE, status |-> 0],
     retry |-> [has |-> FALSE, ok |-> FALSE, status |-> 0]]

\* The state an OAuth search reads and writes, as one value.
OAuthState(o, tokens, projects, sent) ==
    [o |-> o, tokenCache |-> tokens, projectCache |-> projects, requests |-> sent,
     thrown |-> Undef, returned |-> Undef]

OAuthThrow(S, message) == [S EXCEPT !.o.pc = "done", !.thrown = message]

OAuthReturn(S, text) == [S EXCEPT !.o.pc = "done", !.returned = text]

\* requestToken up to its fetch, which is given no signal.
requestTokenSend(S, pc, time) ==
    [S EXCEPT !.o.pc = pc, !.o.requestTime = time,
              !.requests = Append(@, Request(OAUTH_TOKEN_ENDPOINT, S.o.refreshToken, FALSE))]

\* requestGenerateContent up to its first fetch.
requestGenerateContentSend(S, attempt) ==
    [S EXCEPT !.o.pc = "generate", !.o.attempt = attempt, !.o.endpoint = 1,
              !.o.lastError = [has |-> FALSE, status |-> 0, message |-> Undef],
              !.requests = Append(@, Request(<<CODE_ASSIST_GENERATE_ENDPOINTS[1],
                                               GEMINI_CODE_ASSIST_GENERATE_PATH>>,
                                             S.o.accessToken, TRUE))]

\* Variant: the cached project is preferred to the managed project of the
\* refresh string.
resolveProjectIdStartCacheFirst(S) ==
    IF S.projectCache[S.o.refreshToken] # Undef
    THEN requestGenerateContentSend(
             [S EXCEPT !.o.effectiveProjectId = S.projectCache[S.o.refreshToken]], 1)
    ELSE IF S.o.managedProjectId # Undef
    THEN requestGenerateContentSend(
             [S EXCEPT !.o.effectiveProjectId = S.o.managedProjectId], 1)
    ELSE [S EXCEPT !.o.pc = "load", !.o.endpoint = 1,
                   !.requests = Append(@, Request(<<loadEndpoints[1],
                                                    GEMINI_CODE_ASSIST_LOAD_PATH>>,
                                                  S.o.accessToken, TRUE))]

\* resolveProjectId up to the first fetch of loadManagedProject, or through
\* to requestGenerateContent when no fetch is needed.
resolveProjectIdStart(S) ==
    IF S.o.managedProjectId # Undef
    THEN requestGenerateContentSend(
             [S EXCEPT !.o.effectiveProjectId = S.o.managedProjectId], 1)
    ELSE IF S.projectCache[S.o.refreshToken] # Undef
    THEN requestGenerateContentSend(
             [S EXCEPT !.o.effectiveProjectId = S.projectCache[S.o.refreshToken]], 1)
    ELSE [S EXCEPT !.o.pc = "load", !.o.endpoint = 1,
                   !.requests = Append(@, Request(<<loadEndpoints[1],
                                                    GEMINI_CODE_ASSIST_LOAD_PATH>>,
                                                  S.o.accessToken, TRUE))]

\* search from the check of accessToken to its next await.
searchWithToken(S) ==
    IF S.o.accessToken = <<>>
    THEN OAuthThrow(S, <<"Missing Google OAuth access token">>)
    ELSE resolveProjectIdStart(
             [S EXCEPT !.tokenCache =
                 IF S.o.expiresAt.has
                 THEN cacheToken(@, S.o.refreshToken, S.o.accessToken, S.o.expiresAt)
                 ELSE @])

\* createGeminiOAuthWebSearchClient(authDetails, model).search(query) to its
\* first await.
oauthSearchStart(authDetails, query, tokens, projects, time) ==
    LET refreshParts == parseRefresh(IF authDetails.refresh = Undef THEN <<>>
                                     ELSE authDetails.refresh)
        refreshToken == refreshParts.refreshToken
        initialAccess == IF authDetails.access = Undef THEN <<>> ELSE Trim(authDetails.access)
        initialExpires == parseExpires(authDetails.expires)
        got == getCachedAccess(tokens, refreshToken, time)
        o == [NoOAuthSearch EXCEPT
                 !.auth = authDetails, !.query = Trim(query), !.startTime = time,
                 !.cachedAtStart = IF refreshToken \in DOMAIN tokens
                                   THEN tokens[refreshToken] ELSE NoCachedToken,
                 !.refreshToken = refreshToken,
                 !.projectId = refreshParts.projectId,
                 !.managedProjectId = refreshParts.managedProjectId,
                 !.accessToken = IF got.cached.has THEN got.cached.accessToken
                                 ELSE initialAccess,
                 !.expiresAt = IF got.cached.has
                               THEN [has |-> TRUE, value |-> got.cached.expiresAt]
                               ELSE initialExpires]
        S == OAuthState(o, got.cache, projects, <<>>)
    IN  IF refreshToken = <<>>
        THEN OAuthThrow(OAuthState([NoOAuthSearch EXCEPT !.auth = authDetails,
                                        !.query = Trim(query), !.startTime = time],
                                   tokens, projects, <<>>),
                        <<"Missing Google OAuth refresh token">>)
        ELSE IF accessTokenExpired(o.accessToken, o.expiresAt, time)
        THEN requestTokenSend(S, "refresh", time)
        ELSE searchWithToken(S)

\* The access token the token endpoint issues next.
IssuedToken(k) == <<"issued-">> \o NatToString(k)

\* Variant: the refreshed token is cached but the search goes on with the
\* token it had.
oauthTokenRespondsKeepingToken(S, response, issued) ==
    IF ~response.ok THEN OAuthThrow(S, response.message)
    ELSE IF ~response.hasAccessToken
    THEN OAuthThrow(S, <<"Token refresh response missing access_token">>)
    ELSE LET accessToken == IssuedToken(issued)
             expiresAt == [has |-> TRUE,
                           value |-> TokenExpiresAt(response.expiresIn, S.o.requestTime)]
             refreshed == [S EXCEPT !.o.expiresAt = expiresAt,
                                    !.o.refreshedThisRequest = TRUE,
                                    !.tokenCache = cacheToken(@, S.o.refreshToken,
                                                              accessToken, expiresAt)]
         IN  IF S.o.pc = "refresh" THEN searchWithToken(refreshed)
             ELSE requestGenerateContentSend(refreshed, 2)

\* requestToken and refreshAccessToken from the token endpoint's response on.
\* response [ok, hasAccessToken, expiresIn, message]
oauthTokenResponds(S, response, issued) ==
    IF ~response.ok THEN OAuthThrow(S, response.message)
    ELSE IF ~response.hasAccessToken
    THEN OAuthThrow(S, <<"Token refresh response missing access_token">>)
    ELSE LET accessToken == IssuedToken(issued)
             expiresAt == [has |-> TRUE,
                           value |-> TokenExpiresAt(response.expiresIn, S.o.requestTime)]
             refreshed == [S EXCEPT !.o.accessToken = accessToken,
                                    !.o.expiresAt = expiresAt,
                                    !.o.refreshedThisRequest = TRUE,
                                    !.tokenCache = cacheToken(@, S.o.refreshToken,
                                                              accessToken, expiresAt)]
         IN  IF S.o.pc = "refresh" THEN searchWithToken(refreshed)
             ELSE requestGenerateContentSend(refreshed, 2)

\* resolveProjectId from loadManagedProject's result on.
resolveProjectIdEnd(S, payload) ==
    LET resolvedManagedProjectId == extractManagedProjectId(payload)
    IN  IF resolvedManagedProjectId # Undef
        THEN requestGenerateContentSend(
                 [S EXCEPT !.projectCache[S.o.refreshToken] = resolvedManagedProjectId,
                           !.o.effectiveProjectId = resolvedManagedProjectId], 1)
        ELSE requestGenerateContentSend(
                 [S EXCEPT !.o.effectiveProjectId =
                     IF S.o.projectId # Undef THEN S.o.projectId
                     ELSE ANTIGRAVITY_DEFAULT_PROJECT_ID], 1)

\* loadManagedProject from a fetch's outcome on.
\* response [ok, throws, projectKind, project]
oauthLoadResponds(S, response) ==
    IF response.throws \/ ~response.ok
    THEN IF S.o.endpoint < Len(loadEndpoints)
         THEN [S EXCEPT !.o.endpoint = @ + 1,
                        !.requests = Append(@, Request(<<loadEndpoints[S.o.endpoint + 1],
                                                         GEMINI_CODE_ASSIST_LOAD_PATH>>,
                                                       S.o.accessToken, TRUE))]
         ELSE resolveProjectIdEnd(S, [isNull |-> TRUE, projectKind |-> "none",
                                      project |-> Undef])
    ELSE resolveProjectIdEnd(S, [isNull |-> FALSE, projectKind |-> response.projectKind,
                                 project |-> response.project])

\* search with the result of an attempt stored in firstAttempt or retry.
AttemptStored(S, result) ==
    LET stored == [has |-> TRUE, ok |-> result.ok, status |-> result.status]
    IN  IF S.o.attempt = 1 THEN [S EXCEPT !.o.firstAttempt = stored]
        ELSE [S EXCEPT !.o.retry = stored]

AttemptFailure(result) ==
    IF result.message # Undef THEN result.message
    ELSE <<"Request failed with status ">> \o NatToString(result.status)

\* Variant: the first attempt is retried whatever its status.
oauthAttemptEndsRetryAnyStatus(S, result, time) ==
    LET T == AttemptStored(S, result)
    IN  IF result.ok THEN OAuthReturn(T, formatWebSearchResponseText(result.body, S.o.query))
        ELSE IF S.o.attempt = 1 /\ ~S.o.refreshedThisRequest
        THEN requestTokenSend(
                 [T EXCEPT !.tokenCache[S.o.refreshToken] = NoCachedToken], "forcedRefresh",
                 time)
        ELSE OAuthThrow(T, AttemptFailure(result))

\* Variant: the first attempt is retried even after an up-front refresh.
oauthAttemptEndsAlwaysRefreshing(S, result, time) ==
    LET T == AttemptStored(S, result)
    IN  IF result.ok THEN OAuthReturn(T, formatWebSearchResponseText(result.body, S.o.query))
        ELSE IF S.o.attempt = 1 /\ result.status \in {401, 403}
        THEN requestTokenSend(
                 [T EXCEPT !.tokenCache[S.o.refreshToken] = NoCachedToken], "forcedRefresh",
                 time)
        ELSE OAuthThrow(T, AttemptFailure(result))

\* search from the result of an attempt on.
\* result [ok, status, message, body]
oauthAttemptEnds(S, result, time) ==
    LET T == AttemptStored(S, result)
    IN  IF result.ok THEN OAuthReturn(T, formatWebSearchResponseText(result.body, S.o.query))
        ELSE IF S.o.attempt = 1 /\ result.status \in {401, 403} /\ ~S.o.refreshedThisRequest
        THEN requestTokenSend(
                 [T EXCEPT !.tokenCache[S.o.refreshToken] = NoCachedToken], "forcedRefresh",
                 time)
        ELSE OAuthThrow(T, AttemptFailure(result))

\* Variant: a 401 or 403 is treated like any other failure, and the next
\* endpoint is tried.
oauthGenerateRespondsTryingOn(S, response, time) ==
    IF ~response.ok
    THEN IF S.o.endpoint < Len(CODE_ASSIST_GENERATE_ENDPOINTS)
         THEN [S EXCEPT !.o.endpoint = @ + 1,
                        !.o.lastError = [has |-> TRUE, status |-> response.status,
                                         message |-> response.message],
                        !.requests = Append(@, Request(
                            <<CODE_ASSIST_GENERATE_ENDPOINTS[S.o.endpoint + 1],
                              GEMINI_CODE_ASSIST_GENERATE_PATH>>, S.o.accessToken, TRUE))]
         ELSE oauthAttemptEnds(S, [ok |-> FALSE, status |-> response.status,
                                   message |-> response.message, body |-> response.body],
                               time)
    ELSE IF response.emptyText
    THEN OAuthThrow(S, <<"Empty response from Google Code Assist">>)
    ELSE oauthAttemptEnds(S, [ok |-> TRUE, status |-> 200, message |-> Undef,
                              body |-> response.body], time)

\* requestGenerateContent from a fetch's response on.
\* response [ok, status, message, emptyText, body]
oauthGenerateResponds(S, response, time) ==
    IF ~response.ok
    THEN IF response.status \in {401, 403}
         THEN oauthAttemptEnds(S, [ok |-> FALSE, status |-> response.status,
                                   message |-> response.message, body |-> response.body], time)
         ELSE IF S.o.endpoint < Len(CODE_ASSIST_GENERATE_ENDPOINTS)
         THEN [S EXCEPT !.o.endpoint = @ + 1,
                        !.o.lastError = [has |-> TRUE, status |-> response.status,
                                         message |-> response.message],
                        !.requests = Append(@, Request(
                            <<CODE_ASSIST_GENERATE_ENDPOINTS[S.o.endpoint + 1],
                              GEMINI_CODE_ASSIST_GENERATE_PATH>>, S.o.accessToken, TRUE))]
         ELSE oauthAttemptEnds(S, [ok |-> FALSE, status |-> response.status,
                                   message |-> response.message, body |-> response.body],
                               time)
    ELSE IF response.emptyText
    THEN OAuthThrow(S, <<"Empty response from Google Code Assist">>)
    ELSE oauthAttemptEnds(S, [ok |-> TRUE, status |-> 200, message |-> Undef,
                              body |-> response.body], time)

(***************************************************************************)
(* Decoding the body of a successful generateContent response.             *)
(*   body    [kind: "empty" | "invalid" | "scalar" | "object" | "array",   *)
(*            items]  the response text: empty, not JSON, or the JSON      *)
(*            value; items holds the object itself or the array's elements *)
(*   element [isObject, response: "absent" | "null" | "string" | "object", *)
(*            candidates: is the candidates field truthy?]                 *)
(*   result  [state: "returned" | "thrown", from: the field the response   *)
(*            was taken from, item: the element used, message]             *)
(***************************************************************************)
DecodeReturn(from, item) ==
    [state |-> "returned", from |-> from, item |-> item, message |-> Undef]

DecodeThrow(message) ==
    [state |-> "thrown", from |-> "none", item |-> 0, message |-> message]

\* The array branch of candidateObject: the first element that is an
\* object (0: there is none).
FirstObject(items) ==
    IF \E i \in DOMAIN items : items[i].isObject
    THEN CHOOSE i \in DOMAIN items :
             items[i].isObject /\ \A j \in 1..(i - 1) : ~items[j].isObject
    ELSE 0

\* extractGenerateContentResponse; a result in state "thrown" stands for
\* undefined.
extractGenerateContentResponse(payload) ==
    LET item == IF payload.kind = "array" THEN FirstObject(payload.items)
                ELSE IF payload.kind = "object" /\ payload.items[1].isObject THEN 1
                ELSE 0
    IN  IF item = 0 THEN DecodeThrow(Undef)
        ELSE IF payload.items[item].response = "object" THEN DecodeReturn("response", item)
        ELSE IF payload.items[item].candidates THEN DecodeReturn("candidates", item)
        ELSE DecodeThrow(Undef)

\* requestGenerateContent from `await response.text()` of an ok response on.
decodeGenerateBody(body) ==
    IF body.kind = "empty" THEN DecodeThrow(<<"Empty response from Google Code Assist">>)
    ELSE IF body.kind = "invalid"
    THEN DecodeThrow(<<"Invalid JSON response from Google Code Assist">>)
    ELSE LET effectiveResponse == extractGenerateContentResponse(body)
         IN  IF effectiveResponse.state = "thrown"
             THEN DecodeThrow(
                 <<"Google Code Assist response did not include a valid response payload">>)
             ELSE effectiveResponse

(***************************************************************************)
(* Reading the body of an OpenAI response.  The body is a sequence of      *)
(* lines; a JSON document counts as one line.                              *)
(*   line [prefix: what the line starts with ("data: ", "data:" without    *)
(*         the space, "none"),                                             *)
(*         content: "blank", "object", "array", "scalar" (a JSON number,   *)
(*         string or null), "brokenObject" (starts with a brace, is not    *)
(*         JSON), "garbage", "[DONE]" or "event" (a JSON object),          *)
(*         type: the event's type ("" when it has none), hasResponse]      *)
(***************************************************************************)
TerminalEventTypes == {"response.done", "response.completed"}

IsBlankLine(line) == line.prefix = "none" /\ line.content = "blank"

\* The loop of extractOpenAIResponseFromSse from line i on.
RECURSIVE SseScan(_, _)
SseScan(lines, i) ==
    IF i > Len(lines) THEN DecodeThrow(Undef)
    ELSE IF lines[i].prefix # "data: " THEN SseScan(lines, i + 1)
    ELSE IF lines[i].content \in {"blank", "[DONE]"} THEN SseScan(lines, i + 1)
    ELSE IF lines[i].content \notin {"event", "array", "scalar"} THEN SseScan(lines, i + 1)
    ELSE IF lines[i].content = "event" /\ lines[i].type \in TerminalEventTypes
    THEN IF lines[i].hasResponse THEN DecodeReturn("sse", i) ELSE DecodeThrow(Undef)
    ELSE SseScan(lines, i + 1)

\* Variant: the response of the first event that carries one, whatever its
\* type.
extractOpenAIResponseFromSseAnyEvent(lines) ==
    LET carrying == { i \in DOMAIN lines :
                        /\ lines[i].prefix = "data: "
                        /\ lines[i].content = "event"
                        /\ lines[i].hasResponse }
    IN  IF carrying = {} THEN DecodeThrow(Undef)
        ELSE DecodeReturn("sse", CHOOSE i \in carrying : \A j \in carrying : i <= j)

\* A result in state "thrown" stands for undefined.
extractOpenAIResponseFromSse(lines) == SseScan(lines, 1)

readOpenAIResponsePayload(lines) ==
    LET nonBlank == { i \in DOMAIN lines : ~IsBlankLine(lines[i]) }
        first == CHOOSE i \in nonBlank : \A j \in nonBlank : i <= j
    IN  IF nonBlank = {} THEN DecodeReturn("empty", 0)
        ELSE IF /\ lines[first].prefix = "none"
                /\ lines[first].content \in {"object", "array"}
                /\ nonBlank = {first}
        THEN DecodeReturn("json", first)
        ELSE LET extracted == extractOpenAIResponseFromSse(lines)
             IN  IF extracted.state = "returned" THEN extracted
                 ELSE DecodeThrow(<<"Failed to parse JSON">>)

(***************************************************************************)
(* websearch_cited plugin: the tool.                                       *)
(*   args [query: a string or Undef, keys: Object.keys(args)]              *)
(***************************************************************************)
WEBSEARCH_ALLOWED_KEYS == {"query"}

\* Variant: a provider without a callback borrows a registered one.
resolveGetAuthWithFallback(providerID) ==
    IF authRegistry[providerID].behaviour # "unregistered" THEN authRegistry[providerID]
    ELSE LET others == {p \in SupportedProviders :
                            authRegistry[p].behaviour # "unregistered"}
         IN  IF others = {} THEN Unregistered
             ELSE authRegistry[CHOOSE p \in others : TRUE]

resolveGetAuth(providerID) == authRegistry[providerID]

AuthenticateHint == <<". Authenticate via ", Backtick, "opencode auth login", Backtick, ".">>

\* The part of execute after the argument, query and configuration checks:
\* the openai branch, the openrouter branch, and google for anything else.
executeWithProvider(query, net) ==
    LET providerID == IF selectedProvider = OPENAI_PROVIDER_ID THEN OPENAI_PROVIDER_ID
                      ELSE IF selectedProvider = OPENROUTER_PROVIDER_ID
                      THEN OPENROUTER_PROVIDER_ID
                      ELSE GOOGLE_PROVIDER_ID
        getAuth == resolveGetAuth(providerID)
    IN  IF getAuth.behaviour = "unregistered"
        THEN Threw(MissingAuthMessage(providerID) \o AuthenticateHint, <<>>, {})
        ELSE clientSearch(providerID, selectedModel, query, getAuth, net)

\* Variant: the query is validated before the argument keys.
websearchCitedExecuteQueryFirst(args, net) ==
    LET extraKeys == SelectSeq(args.keys, LAMBDA key : key \notin WEBSEARCH_ALLOWED_KEYS)
        query == IF args.query = Undef THEN Undef ELSE Trim(args.query)
    IN  IF query = Undef \/ query = <<>>
        THEN Threw(<<"The 'query' parameter cannot be empty.">>, <<>>, {})
        ELSE IF Len(extraKeys) > 0
        THEN Threw(<<"Unknown argument(s): ">>
                   \o Join([i \in DOMAIN extraKeys |-> <<extraKeys[i]>>], <<", ">>)
                   \o <<", only ", "'query'", " supported.">>, <<>>, {})
        ELSE IF configError # Undef THEN Threw(configError, <<>>, {})
        ELSE IF selectedProvider = NoProvider \/ selectedModel = Undef
        THEN Threw(<<"Missing web search model configuration.">>, <<>>, {})
        ELSE executeWithProvider(query, net)

websearchCitedExecute(args, net) ==
    LET extraKeys == SelectSeq(args.keys, LAMBDA key : key \notin WEBSEARCH_ALLOWED_KEYS)
        query == IF args.query = Undef THEN Undef ELSE Trim(args.query)
    IN  IF Len(extraKeys) > 0
        THEN Threw(<<"Unknown argument(s): ">>
                   \o Join([i \in DOMAIN extraKeys |-> <<extraKeys[i]>>], <<", ">>)
                   \o <<", only ", "'query'", " supported.">>, <<>>, {})
        ELSE IF query = Undef \/ query = <<>>
        THEN Threw(<<"The 'query' parameter cannot be empty.">>, <<>>, {})
        ELSE IF configError # Undef THEN Threw(configError, <<>>, {})
        ELSE IF selectedProvider = NoProvider \/ selectedModel = Undef
        THEN Threw(<<"Missing web search model configuration.">>, <<>>, {})
        ELSE executeWithProvider(query, net)

(***************************************************************************)
(* The splicer as a state machine: Init draws the arguments, Splice calls  *)
(* it once.                                                                *)
(***************************************************************************)
SpliceAlphabet == {"a", "ko"}
SpliceMarkers == {<<"[", "1", "]">>, <<"[", "1", "]", "[", "2", "]">>}

SpliceTexts == SeqsUpTo(SpliceAlphabet, SpliceMaxLen)

SpliceInsertionsFor(text) ==
    SeqsUpTo([index : (0 - IdxSlack)..(Len(Encode(text)) + IdxSlack), marker : SpliceMarkers],
             SpliceMaxIns)

NoConfig == [hasProvider |-> FALSE, provider |-> <<>>]

NoCall ==
    [op |-> "none", provider |-> NoProvider, model |-> Undef, query |-> Undef,
     keys |-> <<>>, getAuth |-> Unregistered, net |-> "none"]

NoSearchDone ==
    /\ call = NoCall
    /\ thrown = Undef
    /\ returned = Undef
    /\ gResult = NoResult
    /\ requests = <<>>
    /\ authAsked = {}

OAuthIdle ==
    /\ tokenCache = [r \in {<<"rt">>} |-> NoCachedToken]
    /\ projectCache = [r \in {<<"rt">>} |-> Undef]
    /\ now = 0
    /\ tokensIssued = 0
    /\ searchesStarted = 0
    /\ oauth = NoOAuthSearch

OpenRouterIdle ==
    /\ orPayload = [output_text |-> Undef, hasOutput |-> FALSE, output |-> <<>>]
    /\ orCalled = FALSE

NoSearcher ==
    [o |-> NoOAuthSearch, requests |-> <<>>, thrown |-> Undef, returned |-> Undef]

RaceIdle == race = [p \in {1, 2} |-> NoSearcher]

NoDecode == [state |-> "none", from |-> "none", item |-> 0, message |-> Undef]

DecodeIdle ==
    /\ caPayload = [kind |-> "other", items |-> <<>>]
    /\ caResult = NoDecode
    /\ sseBody = <<>>
    /\ sseResult = NoDecode

PluginIdle ==
    /\ OAuthIdle
    /\ OpenRouterIdle
    /\ RaceIdle
    /\ DecodeIdle
    /\ loaded = "none"
    /\ googleApiKeyFromAuth = Undef
    /\ envGeminiApiKey = Undef
    /\ selectedProvider = NoProvider
    /\ selectedModel = Undef
    /\ openaiConfig = EmptyOpenAIConfig
    /\ configError = Undef
    /\ cfgInput = NoConfig
    /\ authRegistry = [p \in SupportedProviders |-> Unregistered]
    /\ NoSearchDone

FormatIdle ==
    /\ fResponse = [candidates |-> <<>>]
    /\ fQuery = <<>>
    /\ fCalled = FALSE
    /\ fResponseText = Undef
    /\ fInsertions = <<>>
    /\ fResult = NoResult

SpliceInit ==
    /\ FormatIdle
    /\ PluginIdle
    /\ sText \in SpliceTexts
    /\ sInsertions \in SpliceInsertionsFor(sText)
    /\ sCalled = FALSE
    /\ sParts = <<>>
    /\ sOut = <<>>

Splice ==
    /\ ~sCalled
    /\ sCalled' = TRUE
    /\ sParts' = IF Len(sInsertions) = 0 THEN <<>> ELSE SpliceParts(sText, sInsertions)
    /\ sOut' = insertMarkersByUtf8Index(sText, sInsertions)
    /\ UNCHANGED <<sText, sInsertions>>
    /\ UNCHANGED <<formatVars, pluginVars, oauthVars, openrouterVars, raceVars, decodeVars>>

SpliceNext == Splice

SpecSplice == SpliceInit /\ [][SpliceNext]_vars

(***************************************************************************)
(* The formatter as a state machine: Init draws a response and a query,    *)
(* Format calls formatWebSearchResponse once.                              *)
(***************************************************************************)
TextPart(text) == [thought |-> FALSE, text |-> text]
ThoughtPart(text) == [thought |-> TRUE, text |-> text]

\* hasParts and the parts array of the first candidate.
FormatPartLists ==
    { [hasParts |-> FALSE, parts |-> <<>>],
      [hasParts |-> TRUE, parts |-> <<>>],
      [hasParts |-> TRUE, parts |-> <<TextPart(<<>>)>>],
      [hasParts |-> TRUE, parts |-> <<TextPart(<<" ">>), TextPart(Undef), TextPart(<<"\n">>)>>],
      [hasParts |-> TRUE, parts |-> <<ThoughtPart(<<"a">>)>>],
      [hasParts |-> TRUE, parts |-> <<ThoughtPart(<<"a">>), TextPart(<<" ">>)>>],
      [hasParts |-> TRUE, parts |-> <<TextPart(<<"a", "ko">>)>>],
      [hasParts |-> TRUE, parts |-> <<TextPart(<<"a">>), ThoughtPart(<<"e'">>), TextPart(<<"ko">>)>>],
      [hasParts |-> TRUE, parts |-> <<TextPart(<<" ", "ko", "a">>)>>] }

ChunkKinds ==
    { [hasWeb |-> TRUE, title |-> <<"a">>, uri |-> <<"e'">>],
      [hasWeb |-> TRUE, title |-> <<>>, uri |-> Undef],
      [hasWeb |-> FALSE, title |-> Undef, uri |-> Undef] }

SupportKinds ==
    { [hasSegment |-> FALSE, hasEndIndex |-> FALSE, endIndex |-> 0,
       hasIndices |-> TRUE, indices |-> <<0>>],
      [hasSegment |-> TRUE, hasEndIndex |-> TRUE, endIndex |-> 1,
       hasIndices |-> TRUE, indices |-> <<0>>],
      [hasSegment |-> TRUE, hasEndIndex |-> TRUE, endIndex |-> 4,
       hasIndices |-> TRUE, indices |-> <<1, 0, 1>>],
      [hasSegment |-> TRUE, hasEndIndex |-> TRUE, endIndex |-> 2,
       hasIndices |-> TRUE, indices |-> <<MaxChunks>>] }

MetadataChoices ==
    { [hasMeta |-> FALSE, hasChunks |-> FALSE, chunks |-> <<>>,
       hasSupports |-> FALSE, supports |-> <<>>] }
    \cup
    { [hasMeta |-> TRUE, hasChunks |-> hc, chunks |-> cs, hasSupports |-> hs, supports |-> ss] :
        hc \in BOOLEAN, hs \in BOOLEAN,
        cs \in SeqsUpTo(ChunkKinds, MaxChunks), ss \in SeqsUpTo(SupportKinds, MaxSupports) }

WellShapedMetadata(m) ==
    /\ (~m.hasChunks => m.chunks = <<>>)
    /\ (~m.hasSupports => m.supports = <<>>)

CandidateOf(p, m) ==
    [hasParts |-> p.hasParts, parts |-> p.parts, hasMeta |-> m.hasMeta,
     hasChunks |-> m.hasChunks, chunks |-> m.chunks,
     hasSupports |-> m.hasSupports, supports |-> m.supports]

FormatCandidates ==
    {CandidateOf(p, m) : p \in FormatPartLists, m \in {x \in MetadataChoices : WellShapedMetadata(x)}}

\* A second candidate, which the formatter must never read.
OtherCandidate ==
    [hasParts |-> TRUE, parts |-> <<TextPart(<<"e'">>)>>, hasMeta |-> TRUE,
     hasChunks |-> TRUE, chunks |-> <<[hasWeb |-> TRUE, title |-> <<"e'">>, uri |-> <<"a">>]>>,
     hasSupports |-> TRUE,
     supports |-> <<[hasSegment |-> TRUE, hasEndIndex |-> TRUE, endIndex |-> 0,
                     hasIndices |-> TRUE, indices |-> <<0>>]>>]

FormatResponses ==
    {[candidates |-> <<>>]}
    \cup {[candidates |-> <<c>>] : c \in FormatCandidates}
    \cup {[candidates |-> <<c, OtherCandidate>>] : c \in FormatCandidates}

FormatQueries == {<<"a">>, <<"ko", " ", "a">>}

SpliceIdle ==
    /\ sText = <<>>
    /\ sInsertions = <<>>
    /\ sCalled = FALSE
    /\ sParts = <<>>
    /\ sOut = <<>>

FormatInit ==
    /\ SpliceIdle
    /\ PluginIdle
    /\ fResponse \in FormatResponses
    /\ fQuery \in FormatQueries
    /\ fCalled = FALSE
    /\ fResponseText = Undef
    /\ fInsertions = <<>>
    /\ fResult = NoResult

Format ==
    /\ ~fCalled
    /\ fCalled' = TRUE
    /\ fResponseText' = extractResponseText(fResponse)
    /\ fInsertions' = InsertionsUsed(fResponse)
    /\ fResult' = formatWebSearchResponse(fResponse, fQuery)
    /\ UNCHANGED <<fResponse, fQuery>>
    /\ UNCHANGED <<spliceVars, pluginVars, oauthVars, openrouterVars, raceVars, decodeVars>>

FormatNext == Format

SpecFormat == FormatInit /\ [][FormatNext]_vars

(***************************************************************************)
(* The formatter over grounding supports of every shape: one candidate     *)
(* with an answer text and a chunk list, and supports that lack a segment, *)
(* an endIndex or chunk indices, or end at index 0.                        *)
(***************************************************************************)
CitationSupportKinds ==
    SupportKinds \cup
    { [hasSegment |-> TRUE, hasEndIndex |-> TRUE, endIndex |-> 0,
       hasIndices |-> TRUE, indices |-> <<1>>],
      [hasSegment |-> TRUE, hasEndIndex |-> FALSE, endIndex |-> 0,
       hasIndices |-> TRUE, indices |-> <<0>>],
      [hasSegment |-> TRUE, hasEndIndex |-> TRUE, endIndex |-> 1,
       hasIndices |-> TRUE, indices |-> <<>>],
      [hasSegment |-> TRUE, hasEndIndex |-> TRUE, endIndex |-> 2,
       hasIndices |-> FALSE, indices |-> <<>>] }

CitationResponses ==
    { [candidates |->
          <<[hasParts |-> TRUE, parts |-> <<TextPart(<<"a", "ko">>)>>, hasMeta |-> TRUE,
             hasChunks |-> TRUE,
             chunks |-> <<[hasWeb |-> TRUE, title |-> <<"a">>, uri |-> <<"e'">>]>>,
             hasSupports |-> hs, supports |-> ss]>>] :
        hs \in BOOLEAN, ss \in SeqsUpTo(CitationSupportKinds, MaxSupports + 1) }

CitationInit ==
    /\ SpliceIdle
    /\ PluginIdle
    /\ fResponse \in { r \in CitationResponses :
                          WellShapedMetadata(FirstCandidate(r)) }
    /\ fQuery = <<"a">>
    /\ fCalled = FALSE
    /\ fResponseText = Undef
    /\ fInsertions = <<>>
    /\ fResult = NoResult

SpecCitations == CitationInit /\ [][FormatNext]_vars

(***************************************************************************)
(* The plugins as a state machine.  One of the two packages is loaded; the *)
(* host calls its auth loaders, its config hook and its tool, and the      *)
(* provider clients are also called on their own.  callVars describe the   *)
(* last call only.                                                         *)
(***************************************************************************)
\* What the host's getAuth of a provider can do.
GeminiCallbacks ==
    { Resolves(NoAuth, GOOGLE_PROVIDER_ID),
      Resolves(ApiAuth(<<" ", "google-key", " ">>), GOOGLE_PROVIDER_ID),
      Resolves(ApiAuth(<<" ">>), GOOGLE_PROVIDER_ID),
      Resolves(OAuthAuth(<<"google-access">>), GOOGLE_PROVIDER_ID),
      Rejects(GOOGLE_PROVIDER_ID) }

\* The callbacks the host registers with the websearch_cited loaders.
CallbacksFor(providerID) ==
    IF providerID = GOOGLE_PROVIDER_ID
    THEN { Resolves(NoAuth, GOOGLE_PROVIDER_ID),
           Resolves(ApiAuth(<<" ", "google-key", " ">>), GOOGLE_PROVIDER_ID) }
    ELSE IF providerID = OPENAI_PROVIDER_ID
    THEN { Resolves(NoAuth, OPENAI_PROVIDER_ID),
           Resolves(OAuthAuth(<<" ", "openai-access">>), OPENAI_PROVIDER_ID) }
    ELSE { Resolves(NoAuth, OPENROUTER_PROVIDER_ID),
           Resolves(ApiAuth(<<"openrouter-key", " ">>), OPENROUTER_PROVIDER_ID) }

\* The callbacks a provider client is handed when it is called on its own.
ClientCallbacksFor(providerID) ==
    CallbacksFor(providerID) \cup
    ( IF providerID = GOOGLE_PROVIDER_ID
      THEN { Resolves(ApiAuth(<<" ">>), GOOGLE_PROVIDER_ID),
             Resolves(WellKnownAuth(<<"google-token">>), GOOGLE_PROVIDER_ID) }
      ELSE IF providerID = OPENAI_PROVIDER_ID
      THEN { Resolves(ApiAuth(<<"openai-key">>), OPENAI_PROVIDER_ID),
             Resolves(WellKnownAuth(<<" ">>), OPENAI_PROVIDER_ID) }
      ELSE { Resolves(OAuthAuth(<<"openrouter-access">>), OPENROUTER_PROVIDER_ID),
             Rejects(OPENROUTER_PROVIDER_ID) } )

EnvKeys == {Undef, <<" ">>, <<" ", "env-key", " ">>}

\* The arguments of a tool call: the query and Object.keys(args).
ToolArgs ==
    { [query |-> Undef, keys |-> <<>>],
      [query |-> Undef, keys |-> <<"format">>],
      [query |-> <<" ", "\n">>, keys |-> <<"query">>],
      [query |-> <<" ", "\n">>, keys |-> <<"format", "query", "limit">>],
      [query |-> <<" ", "a", " ">>, keys |-> <<"query">>],
      [query |-> <<" ", "a", " ">>, keys |-> <<"query", "format">>] }

GroundedResponse ==
    [candidates |-> <<CandidateOf(
        [hasParts |-> TRUE, parts |-> <<TextPart(<<"a", "ko">>)>>],
        [hasMeta |-> TRUE, hasChunks |-> TRUE,
         chunks |-> <<[hasWeb |-> TRUE, title |-> <<"a">>, uri |-> <<"e'">>]>>,
         hasSupports |-> TRUE,
         supports |-> <<[hasSegment |-> TRUE, hasEndIndex |-> TRUE, endIndex |-> 1,
                         hasIndices |-> TRUE, indices |-> <<0>>]>>])>>]

BlankResponse ==
    [candidates |-> <<CandidateOf(
        [hasParts |-> TRUE, parts |-> <<TextPart(<<" ">>)>>],
        [hasMeta |-> FALSE, hasChunks |-> FALSE, chunks |-> <<>>,
         hasSupports |-> FALSE, supports |-> <<>>])>>]

\* What the network answers to the one request of a search: a grounded
\* answer, a payload without text, or a status that is not ok.
NetOutcomes ==
    { [kind |-> "ok", response |-> GroundedResponse, text |-> <<"a", " ", "[", "1", "]">>,
       message |-> Undef],
      [kind |-> "ok", response |-> BlankResponse, text |-> Undef, message |-> Undef],
      [kind |-> "error", response |-> [candidates |-> <<>>], text |-> Undef,
       message |-> <<"status=500">>] }

NetTag(net) == IF net.kind = "ok" /\ net.text = Undef THEN "blank" ELSE net.kind

\* Provider entries of the host configuration.
ValidOptions ==
    [NoOptions EXCEPT !.reasoningEffort = <<" ", "high", " ">>, !.store = "true"]

Entry(id, kind) ==
    [id |-> id,
     isObject |-> kind # "null",
     optionsIsRecord |-> kind \notin {"null", "noOptions"},
     hasCited |-> kind \notin {"null", "noOptions", "noCited"},
     citedIsRecord |-> kind \in {"blankModel", "numberModel", "valid"},
     model |-> IF kind = "valid" THEN <<" ", "m", " ">>
               ELSE IF kind = "blankModel" THEN <<" ">>
               ELSE IF kind = "numberModel" THEN NonString
               ELSE Undef,
     options |-> IF kind = "valid" THEN ValidOptions ELSE NoOptions,
     modelsIsRecord |-> kind = "valid",
     models |-> IF kind = "valid"
                THEN <<[name |-> <<"m">>, isRecord |-> TRUE, optionsIsRecord |-> TRUE,
                        options |-> [NoOptions EXCEPT !.textVerbosity = <<"low">>]]>>
                ELSE <<>>]

EntryKinds == {"null", "noOptions", "noCited", "citedNotRecord", "blankModel",
               "numberModel", "valid"}

\* Provider ids a configuration may use: the supported ones, an ordinary
\* unsupported key and an integer-like unsupported key.
ConfigIds == SupportedProviders \cup {"anthropic", "7"}

ProviderObject(written) == [hasProvider |-> TRUE, provider |-> written]

HostConfigs ==
    { NoConfig,
      ProviderObject(<<Entry("google", "valid")>>),
      ProviderObject(<<Entry("openai", "blankModel"), Entry("google", "valid")>>),
      ProviderObject(<<Entry("openai", "valid"), Entry("google", "valid")>>),
      ProviderObject(<<Entry("anthropic", "valid"), Entry("7", "valid"),
                       Entry("openrouter", "valid")>>),
      ProviderObject(<<Entry("google", "citedNotRecord")>>) }

MaxProviders == 2

RECURSIVE DistinctIds(_)
DistinctIds(written) ==
    \/ written = <<>>
    \/ /\ \A i \in 2..Len(written) : written[i].id # written[1].id
       /\ DistinctIds(Tail(written))

\* Every provider object of at most MaxProviders entries.
Configs ==
    {NoConfig} \cup
    { ProviderObject(w) :
        w \in {x \in SeqsUpTo({Entry(id, k) : id \in ConfigIds, k \in EntryKinds},
                              MaxProviders) : DistinctIds(x)} }

Outcome(o) ==
    /\ thrown' = o.thrown
    /\ returned' = o.returned
    /\ requests' = o.requests
    /\ authAsked' = o.authAsked

PluginInit ==
    /\ SpliceIdle
    /\ FormatIdle
    /\ OAuthIdle
    /\ OpenRouterIdle
    /\ RaceIdle
    /\ DecodeIdle
    /\ loaded \in {"geminisearch", "websearch_cited"}
    /\ googleApiKeyFromAuth = Undef
    /\ envGeminiApiKey = Undef
    /\ selectedProvider = NoProvider
    /\ selectedModel = Undef
    /\ openaiConfig = EmptyOpenAIConfig
    /\ configError = Undef
    /\ cfgInput = NoConfig
    /\ authRegistry = [p \in SupportedProviders |-> Unregistered]
    /\ NoSearchDone

\* process.env.GEMINI_API_KEY is set or deleted.
SetGeminiEnv(value) ==
    /\ loaded = "geminisearch"
    /\ envGeminiApiKey' = value
    /\ call' = [NoCall EXCEPT !.op = "env"]
    /\ gResult' = NoResult
    /\ Outcome(Returned(Undef, <<>>, {}))
    /\ UNCHANGED <<spliceVars, formatVars, oauthVars, openrouterVars, raceVars, decodeVars, loaded, googleApiKeyFromAuth, citedVars,
                   authRegistry>>

\* GeminiSearchPlugin auth.loader(getAuth)
GeminiAuthLoader(getAuth) ==
    /\ loaded = "geminisearch"
    /\ googleApiKeyFromAuth' = IF getAuth.behaviour = "rejects" THEN Undef
                               ELSE extractApiKey(getAuth.auth)
    /\ call' = [NoCall EXCEPT !.op = "auth.loader", !.provider = GOOGLE_PROVIDER_ID,
                              !.getAuth = getAuth]
    /\ gResult' = NoResult
    /\ Outcome(Returned(Undef, <<>>, {getAuth.owner}))
    /\ UNCHANGED <<spliceVars, formatVars, oauthVars, openrouterVars, raceVars, decodeVars, loaded, envGeminiApiKey, citedVars, authRegistry>>

\* geminisearch execute(args)
GeminiExecute(args, net) ==
    /\ loaded = "geminisearch"
    /\ LET done == geminisearchExecute(args, googleApiKeyFromAuth, envGeminiApiKey, net)
       IN  /\ gResult' = done.result
           /\ Outcome(IF done.thrown # Undef THEN Threw(done.thrown, done.requests, {})
                      ELSE Returned(done.result.llmContent, done.requests, {}))
    /\ call' = [NoCall EXCEPT !.op = "geminisearch", !.query = args.query,
                              !.keys = args.keys, !.net = NetTag(net)]
    /\ UNCHANGED <<spliceVars, formatVars, oauthVars, openrouterVars, raceVars, decodeVars, loaded, geminiVars, citedVars, authRegistry>>

\* auth.loader(getAuth) of WebsearchCitedPlugin (openrouter),
\* WebsearchCitedGooglePlugin and WebsearchCitedOpenAIPlugin
CitedAuthLoader(providerID, getAuth) ==
    /\ loaded = "websearch_cited"
    /\ authRegistry' = [authRegistry EXCEPT ![providerID] = getAuth]
    /\ call' = [NoCall EXCEPT !.op = "auth.loader", !.provider = providerID,
                              !.getAuth = getAuth]
    /\ gResult' = NoResult
    /\ Outcome(Returned(Undef, <<>>, {}))
    /\ UNCHANGED <<spliceVars, formatVars, oauthVars, openrouterVars, raceVars, decodeVars, loaded, geminiVars, citedVars>>

\* Variant: openaiConfig is written only when openai is selected, and is
\* not reset otherwise.
CitedConfigKeepingOpenAIConfig(config) ==
    /\ loaded = "websearch_cited"
    /\ cfgInput' = config
    /\ LET state == ConfigHookState(config)
       IN  /\ selectedProvider' = state.selectedProvider
           /\ selectedModel' = state.selectedModel
           /\ openaiConfig' = IF state.selectedProvider = OPENAI_PROVIDER_ID
                              THEN state.openaiConfig ELSE openaiConfig
           /\ configError' = state.configError
    /\ call' = [NoCall EXCEPT !.op = "config"]
    /\ gResult' = NoResult
    /\ Outcome(Returned(Undef, <<>>, {}))
    /\ UNCHANGED <<spliceVars, formatVars, oauthVars, openrouterVars, raceVars, decodeVars, loaded, geminiVars, authRegistry>>

\* WebsearchCitedPlugin config(config)
CitedConfig(config) ==
    /\ loaded = "websearch_cited"
    /\ cfgInput' = config
    /\ LET state == ConfigHookState(config)
       IN  /\ selectedProvider' = state.selectedProvider
           /\ selectedModel' = state.selectedModel
           /\ openaiConfig' = state.openaiConfig
           /\ configError' = state.configError
    /\ call' = [NoCall EXCEPT !.op = "config"]
    /\ gResult' = NoResult
    /\ Outcome(Returned(Undef, <<>>, {}))
    /\ UNCHANGED <<spliceVars, formatVars, oauthVars, openrouterVars, raceVars, decodeVars, loaded, geminiVars, authRegistry>>

\* websearch_cited execute(args)
CitedExecute(args, net) ==
    /\ loaded = "websearch_cited"
    /\ Outcome(websearchCitedExecute(args, net))
    /\ call' = [NoCall EXCEPT !.op = "websearch_cited", !.query = args.query,
                              !.keys = args.keys, !.net = NetTag(net)]
    /\ gResult' = NoResult
    /\ UNCHANGED <<spliceVars, formatVars, oauthVars, openrouterVars, raceVars, decodeVars, loaded, geminiVars, citedVars, authRegistry>>

\* create<Provider>WebsearchClient(model) and, when that returns,
\* client.search(query, signal, getAuth)
ClientSearch(providerID, model, query, getAuth, net) ==
    /\ loaded = "websearch_cited"
    /\ Outcome(clientSearch(providerID, model, query, getAuth, net))
    /\ call' = [NoCall EXCEPT !.op = IF Trim(model) = <<>> THEN "create" ELSE "search",
                              !.provider = providerID, !.model = model, !.query = query,
                              !.getAuth = getAuth, !.net = NetTag(net)]
    /\ gResult' = NoResult
    /\ UNCHANGED <<spliceVars, formatVars, oauthVars, openrouterVars, raceVars, decodeVars, loaded, geminiVars, citedVars, authRegistry>>

\* The direct calls of the provider clients: a blank model once per
\* provider, every query with every callback and network answer otherwise.
ClientCalls ==
    { [providerID |-> p, model |-> <<" ">>, query |-> <<" ", "a", " ">>,
       getAuth |-> Resolves(NoAuth, p), net |-> n] :
        p \in SupportedProviders, n \in {x \in NetOutcomes : NetTag(x) = "ok"} }
    \cup
    UNION { { [providerID |-> p, model |-> <<"m">>, query |-> q, getAuth |-> g, net |-> n] :
                q \in {<<" ", "\n">>, <<" ", "a", " ">>}, g \in ClientCallbacksFor(p),
                n \in {x \in NetOutcomes : NetTag(x) \in {"ok", "error"}} } :
            p \in SupportedProviders }

Next ==
    \/ \E value \in EnvKeys : SetGeminiEnv(value)
    \/ \E getAuth \in GeminiCallbacks : GeminiAuthLoader(getAuth)
    \/ \E args \in ToolArgs, net \in NetOutcomes : GeminiExecute(args, net)
    \/ \E providerID \in SupportedProviders :
           \E getAuth \in CallbacksFor(providerID) : CitedAuthLoader(providerID, getAuth)
    \/ \E config \in HostConfigs : CitedConfig(config)
    \/ \E args \in ToolArgs, net \in NetOutcomes : CitedExecute(args, net)
    \/ \E c \in ClientCalls : ClientSearch(c.providerID, c.model, c.query, c.getAuth, c.net)

Spec == PluginInit /\ [][Next]_vars

(***************************************************************************)
(* The config hook on its own: Init draws the provider object, every       *)
(* provider has credentials, and the tool is called before and after the   *)
(* hook.                                                                   *)
(***************************************************************************)
AllRegistered ==
    [p \in SupportedProviders |->
        Resolves(ApiAuth(<<p, "-key">>), p)]

ConfigInit ==
    /\ SpliceIdle
    /\ FormatIdle
    /\ OAuthIdle
    /\ OpenRouterIdle
    /\ RaceIdle
    /\ DecodeIdle
    /\ loaded = "websearch_cited"
    /\ googleApiKeyFromAuth = Undef
    /\ envGeminiApiKey = Undef
    /\ selectedProvider = NoProvider
    /\ selectedModel = Undef
    /\ openaiConfig = EmptyOpenAIConfig
    /\ configError = Undef
    /\ cfgInput \in Configs
    /\ authRegistry = AllRegistered
    /\ NoSearchDone

ProbeArgs == {a \in ToolArgs : a.keys = <<"query">> /\ a.query = <<" ", "a", " ">>}
ProbeNets == {n \in NetOutcomes : NetTag(n) = "ok"}

ConfigNext ==
    \/ CitedConfig(cfgInput)
    \/ \E args \in ProbeArgs, net \in ProbeNets : CitedExecute(args, net)

SpecConfig == ConfigInit /\ [][ConfigNext]_vars

(***************************************************************************)
(* The Google OAuth search as a state machine: a search runs from one      *)
(* await to the next, each fetch gets a response, and time passes.  The    *)
(* two caches outlive a search.                                            *)
(***************************************************************************)
MaxSearches == 2       \* OAuth searches started in one run
MaxTicks == 1          \* how many times a minute passes

TickMs == 3600000

\* The refresh tokens the caches are keyed by.
RefreshTokenKeys == {<<"rt">>}

\* authDetails handed to createGeminiOAuthWebSearchClient.
OAuthAuths ==
    { [access |-> <<"at0">>, refresh |-> Undef, expires |-> [kind |-> "number", value |-> 3600000]],
      [access |-> Undef, refresh |-> <<" ", "rt", " ">>,
       expires |-> [kind |-> "number", value |-> 3600000]],
      [access |-> <<" ", "at0">>, refresh |-> <<"rt">>, expires |-> [kind |-> "missing", value |-> 0]],
      [access |-> <<"at0">>, refresh |-> <<"rt">>, expires |-> [kind |-> "nonFinite", value |-> 0]],
      [access |-> <<"at0">>, refresh |-> <<"rt", "|", "proj">>,
       expires |-> [kind |-> "number", value |-> 60000]],
      [access |-> <<"at0">>, refresh |-> <<"rt">>, expires |-> [kind |-> "number", value |-> 10800000]],
      [access |-> <<"at0">>, refresh |-> <<"rt", "|", "proj", "|", " ", "managed">>,
       expires |-> [kind |-> "number", value |-> 3600000]] }

TokenResponses ==
    { [ok |-> TRUE, hasAccessToken |-> TRUE, expiresIn |-> NoNumber, message |-> Undef],
      [ok |-> TRUE, hasAccessToken |-> TRUE, expiresIn |-> [has |-> TRUE, value |-> 3600],
       message |-> Undef],
      [ok |-> TRUE, hasAccessToken |-> FALSE, expiresIn |-> NoNumber, message |-> Undef],
      [ok |-> FALSE, hasAccessToken |-> FALSE, expiresIn |-> NoNumber,
       message |-> <<"invalid_grant">>] }

LoadResponses ==
    { [ok |-> TRUE, throws |-> FALSE, projectKind |-> "string", project |-> <<"managed-1">>],
      [ok |-> TRUE, throws |-> FALSE, projectKind |-> "none", project |-> Undef],
      [ok |-> FALSE, throws |-> FALSE, projectKind |-> "none", project |-> Undef],
      [ok |-> FALSE, throws |-> TRUE, projectKind |-> "none", project |-> Undef] }

GenerateResponses ==
    { [ok |-> TRUE, status |-> 200, message |-> Undef, emptyText |-> FALSE,
       body |-> GroundedResponse],
      [ok |-> TRUE, status |-> 200, message |-> Undef, emptyText |-> TRUE,
       body |-> [candidates |-> <<>>]],
      [ok |-> FALSE, status |-> 401, message |-> <<"unauthorized">>, emptyText |-> FALSE,
       body |-> [candidates |-> <<>>]],
      [ok |-> FALSE, status |-> 403, message |-> Undef, emptyText |-> FALSE,
       body |-> [candidates |-> <<>>]],
      [ok |-> FALSE, status |-> 500, message |-> <<"unavailable">>, emptyText |-> FALSE,
       body |-> [candidates |-> <<>>]] }

OAuthInit ==
    /\ SpliceIdle
    /\ FormatIdle
    /\ OpenRouterIdle
    /\ RaceIdle
    /\ DecodeIdle
    /\ loaded = "websearch_cited"
    /\ googleApiKeyFromAuth = Undef
    /\ envGeminiApiKey = Undef
    /\ selectedProvider = NoProvider
    /\ selectedModel = Undef
    /\ openaiConfig = EmptyOpenAIConfig
    /\ configError = Undef
    /\ cfgInput = NoConfig
    /\ authRegistry = [p \in SupportedProviders |-> Unregistered]
    /\ NoSearchDone
    /\ tokenCache = [r \in RefreshTokenKeys |-> NoCachedToken]
    /\ projectCache = [r \in RefreshTokenKeys |-> Undef]
    /\ now = 0
    /\ tokensIssued = 0
    /\ searchesStarted = 0
    /\ oauth = NoOAuthSearch

\* What a step of the search leaves behind.
OAuthStep(S) ==
    /\ oauth' = S.o
    /\ tokenCache' = S.tokenCache
    /\ projectCache' = S.projectCache
    /\ requests' = S.requests
    /\ thrown' = S.thrown
    /\ returned' = S.returned

OAuthCurrent == OAuthState(oauth, tokenCache, projectCache, requests)

OAuthOthers ==
    <<spliceVars, formatVars, openrouterVars, raceVars, decodeVars, loaded, geminiVars, citedVars, authRegistry, gResult, authAsked>>

\* createWebSearchClientForGoogle(authDetails, model).search(query, signal)
OAuthSearch(authDetails, query) ==
    /\ oauth.pc \in {"idle", "done"}
    /\ searchesStarted < MaxSearches
    /\ searchesStarted' = searchesStarted + 1
    /\ OAuthStep(oauthSearchStart(authDetails, query, tokenCache, projectCache, now))
    /\ call' = [NoCall EXCEPT !.op = "oauth.search", !.provider = GOOGLE_PROVIDER_ID,
                              !.query = query]
    /\ UNCHANGED <<OAuthOthers, now, tokensIssued>>

\* The token endpoint answers.
TokenResponds(response) ==
    /\ oauth.pc \in {"refresh", "forcedRefresh"}
    /\ tokensIssued' = IF response.ok /\ response.hasAccessToken
                       THEN tokensIssued + 1 ELSE tokensIssued
    /\ OAuthStep(oauthTokenResponds(OAuthCurrent, response, tokensIssued + 1))
    /\ UNCHANGED <<OAuthOthers, call, now, searchesStarted>>

\* A loadCodeAssist endpoint answers, or the fetch fails.
LoadResponds(response) ==
    /\ oauth.pc = "load"
    /\ OAuthStep(oauthLoadResponds(OAuthCurrent, response))
    /\ UNCHANGED <<OAuthOthers, call, now, tokensIssued, searchesStarted>>

\* A generateContent endpoint answers.
GenerateResponds(response) ==
    /\ oauth.pc = "generate"
    /\ OAuthStep(oauthGenerateResponds(OAuthCurrent, response, now))
    /\ UNCHANGED <<OAuthOthers, call, now, tokensIssued, searchesStarted>>

\* An hour passes.
Tick ==
    /\ now < MaxTicks * TickMs
    /\ now' = now + TickMs
    /\ UNCHANGED <<spliceVars, formatVars, pluginVars, openrouterVars, raceVars, decodeVars, tokenCache,
                   projectCache, tokensIssued, searchesStarted, oauth>>

OAuthNext ==
    \/ \E authDetails \in OAuthAuths : OAuthSearch(authDetails, <<" ", "a", " ">>)
    \/ \E response \in TokenResponses : TokenResponds(response)
    \/ \E response \in LoadResponses : LoadResponds(response)
    \/ \E response \in GenerateResponses : GenerateResponds(response)
    \/ Tick

SpecOAuth == OAuthInit /\ [][OAuthNext]_vars

(***************************************************************************)
(* Two OAuth searches at once.  Each runs from one await to the next; the  *)
(* steps of the two interleave freely, and both read and write the one     *)
(* tokenCache and the one projectCache.  Every endpoint answers with       *)
(* success, except that loadCodeAssist may fail.                           *)
(***************************************************************************)
Searchers == {1, 2}

\* Auth details with the same refresh token and a token that has to be
\* refreshed.
RaceAuths ==
    { [access |-> <<"at0">>, refresh |-> <<"rt", "|", "proj">>,
       expires |-> [kind |-> "number", value |-> 60000]],
      [access |-> <<" ", "at0">>, refresh |-> <<"rt">>,
       expires |-> [kind |-> "missing", value |-> 0]] }

RaceTokenResponses == { r \in TokenResponses : r.ok /\ r.hasAccessToken }

RaceGenerateResponses == { r \in GenerateResponses : r.ok /\ ~r.emptyText }

RaceInit ==
    /\ SpliceIdle
    /\ FormatIdle
    /\ OpenRouterIdle
    /\ DecodeIdle
    /\ OAuthIdle
    /\ RaceIdle
    /\ loaded = "websearch_cited"
    /\ googleApiKeyFromAuth = Undef
    /\ envGeminiApiKey = Undef
    /\ selectedProvider = NoProvider
    /\ selectedModel = Undef
    /\ openaiConfig = EmptyOpenAIConfig
    /\ configError = Undef
    /\ cfgInput = NoConfig
    /\ authRegistry = [p \in SupportedProviders |-> Unregistered]
    /\ NoSearchDone

\* What searcher p reads at a step.
RaceCurrent(p) == OAuthState(race[p].o, tokenCache, projectCache, race[p].requests)

\* What a step of searcher p leaves behind.
RaceStep(p, S) ==
    /\ race' = [race EXCEPT ![p] = [o |-> S.o, requests |-> S.requests,
                                    thrown |-> S.thrown, returned |-> S.returned]]
    /\ tokenCache' = S.tokenCache
    /\ projectCache' = S.projectCache

RaceOthers ==
    <<spliceVars, formatVars, pluginVars, openrouterVars, decodeVars, now, searchesStarted,
      oauth>>

\* searcher p: createWebSearchClientForGoogle(authDetails, model).search(query)
RaceSearch(p, authDetails) ==
    /\ race[p].o.pc = "idle"
    /\ RaceStep(p, oauthSearchStart(authDetails, <<"a">>, tokenCache, projectCache, now))
    /\ UNCHANGED <<RaceOthers, tokensIssued>>

\* The token endpoint answers searcher p.
RaceTokenResponds(p, response) ==
    /\ race[p].o.pc \in {"refresh", "forcedRefresh"}
    /\ tokensIssued' = tokensIssued + 1
    /\ RaceStep(p, oauthTokenResponds(RaceCurrent(p), response, tokensIssued + 1))
    /\ UNCHANGED RaceOthers

\* A loadCodeAssist endpoint answers searcher p, or the fetch fails.
RaceLoadResponds(p, response) ==
    /\ race[p].o.pc = "load"
    /\ RaceStep(p, oauthLoadResponds(RaceCurrent(p), response))
    /\ UNCHANGED <<RaceOthers, tokensIssued>>

\* A generateContent endpoint answers searcher p.
RaceGenerateResponds(p, response) ==
    /\ race[p].o.pc = "generate"
    /\ RaceStep(p, oauthGenerateResponds(RaceCurrent(p), response, now))
    /\ UNCHANGED <<RaceOthers, tokensIssued>>

RaceNext ==
    \E p \in Searchers :
        \/ \E authDetails \in RaceAuths : RaceSearch(p, authDetails)
        \/ \E response \in RaceTokenResponses : RaceTokenResponds(p, response)
        \/ \E response \in LoadResponses : RaceLoadResponds(p, response)
        \/ \E response \in RaceGenerateResponses : RaceGenerateResponds(p, response)

SpecRace == RaceInit /\ [][RaceNext]_vars

(***************************************************************************)
(* Decoding Code Assist bodies: Init draws the text of an ok response,     *)
(* DecodeBody runs the decoding part of requestGenerateContent once.       *)
(***************************************************************************)
MaxItems == 2          \* elements of an array payload

PayloadObjects ==
    { [isObject |-> TRUE, response |-> r, candidates |-> c] :
        r \in {"absent", "null", "string", "object"}, c \in BOOLEAN }

\* A JSON value that is not an object: a number, a string, null.
ScalarElement == [isObject |-> FALSE, response |-> "absent", candidates |-> FALSE]

CodeAssistBodies ==
    { [kind |-> k, items |-> <<>>] : k \in {"empty", "invalid", "scalar"} }
    \cup { [kind |-> "object", items |-> <<e>>] : e \in PayloadObjects }
    \cup { [kind |-> "array", items |-> es] :
             es \in SeqsUpTo(PayloadObjects \cup {ScalarElement}, MaxItems) }

DecodeInit ==
    /\ SpliceIdle
    /\ FormatIdle
    /\ OAuthIdle
    /\ OpenRouterIdle
    /\ RaceIdle
    /\ loaded = "websearch_cited"
    /\ googleApiKeyFromAuth = Undef
    /\ envGeminiApiKey = Undef
    /\ selectedProvider = NoProvider
    /\ selectedModel = Undef
    /\ openaiConfig = EmptyOpenAIConfig
    /\ configError = Undef
    /\ cfgInput = NoConfig
    /\ authRegistry = [p \in SupportedProviders |-> Unregistered]
    /\ NoSearchDone
    /\ caPayload \in CodeAssistBodies
    /\ caResult = NoDecode
    /\ sseBody = <<>>
    /\ sseResult = NoDecode

DecodeBody ==
    /\ caResult.state = "none"
    /\ caResult' = decodeGenerateBody(caPayload)
    /\ UNCHANGED <<caPayload, sseBody, sseResult>>
    /\ UNCHANGED <<spliceVars, formatVars, pluginVars, oauthVars, openrouterVars, raceVars>>

DecodeNext == DecodeBody

SpecDecode == DecodeInit /\ [][DecodeNext]_vars

(***************************************************************************)
(* Reading OpenAI response bodies: Init draws a body, ReadBody runs        *)
(* readOpenAIResponsePayload once.                                         *)
(***************************************************************************)
MaxLines == 2          \* lines of a response body

PlainLine(content) ==
    [prefix |-> "none", content |-> content, type |-> "", hasResponse |-> FALSE]

DataLine(content) ==
    [prefix |-> "data: ", content |-> content, type |-> "", hasResponse |-> FALSE]

EventLine(prefix, type, hasResponse) ==
    [prefix |-> prefix, content |-> "event", type |-> type, hasResponse |-> hasResponse]

SseLines ==
    { PlainLine(c) : c \in {"blank", "object", "array", "scalar", "brokenObject", "garbage"} }
    \cup { DataLine(c) : c \in {"blank", "[DONE]", "garbage", "scalar"} }
    \cup { EventLine("data: ", t, r) : t \in TerminalEventTypes, r \in BOOLEAN }
    \cup { EventLine("data: ", "response.created", TRUE), EventLine("data: ", "", TRUE),
           EventLine("data:", "response.completed", TRUE) }

SseInit ==
    /\ SpliceIdle
    /\ FormatIdle
    /\ OAuthIdle
    /\ OpenRouterIdle
    /\ RaceIdle
    /\ loaded = "websearch_cited"
    /\ googleApiKeyFromAuth = Undef
    /\ envGeminiApiKey = Undef
    /\ selectedProvider = NoProvider
    /\ selectedModel = Undef
    /\ openaiConfig = EmptyOpenAIConfig
    /\ configError = Undef
    /\ cfgInput = NoConfig
    /\ authRegistry = [p \in SupportedProviders |-> Unregistered]
    /\ NoSearchDone
    /\ caPayload = [kind |-> "other", items |-> <<>>]
    /\ caResult = NoDecode
    /\ sseBody \in SeqsUpTo(SseLines, MaxLines)
    /\ sseResult = NoDecode

ReadBody ==
    /\ sseResult.state = "none"
    /\ sseResult' = readOpenAIResponsePayload(sseBody)
    /\ UNCHANGED <<caPayload, caResult, sseBody>>
    /\ UNCHANGED <<spliceVars, formatVars, pluginVars, oauthVars, openrouterVars, raceVars>>

SseNext == ReadBody

SpecSse == SseInit /\ [][SseNext]_vars

(***************************************************************************)
(* The OpenRouter search over response bodies with url_citation            *)
(* annotations: one body is drawn, then the search is made.                *)
(***************************************************************************)
MaxAnnotations == 2    \* url_citation annotations on one output_text part

OpenRouterPartText == <<"a", "b">>

Annotations ==
    [type : {"url_citation"}, url : {<<"u1">>, <<"u2">>},
     end_index : 1..Len(OpenRouterPartText)]

OpenRouterParts ==
    { [type |-> "output_text", text |-> OpenRouterPartText, annotations |-> as] :
        as \in SeqsUpTo(Annotations, MaxAnnotations) }
    \cup { [type |-> "refusal", text |-> <<"no">>, annotations |-> <<>>] }

OpenRouterContents ==
    { <<p>> : p \in OpenRouterParts } \cup { <<p, q>> : p, q \in OpenRouterParts }

OpenRouterPayloads ==
    { [output_text |-> direct, hasOutput |-> TRUE,
       output |-> <<[type |-> "reasoning", hasContent |-> FALSE, content |-> <<>>],
                    [type |-> "message", hasContent |-> TRUE, content |-> content]>>] :
        direct \in {Undef, <<" ">>}, content \in OpenRouterContents }
    \cup
    { [output_text |-> <<"d">>, hasOutput |-> TRUE,
       output |-> <<[type |-> "message", hasContent |-> TRUE, content |-> <<p>>]>>] :
        p \in OpenRouterParts }
    \cup
    { [output_text |-> Undef, hasOutput |-> FALSE, output |-> <<>>] }

OpenRouterQuery == <<"q">>

OpenRouterAuth == ApiAuth(<<"or-key">>)

OpenRouterInit ==
    /\ SpliceIdle
    /\ FormatIdle
    /\ OAuthIdle
    /\ RaceIdle
    /\ DecodeIdle
    /\ loaded = "websearch_cited"
    /\ googleApiKeyFromAuth = Undef
    /\ envGeminiApiKey = Undef
    /\ selectedProvider = NoProvider
    /\ selectedModel = Undef
    /\ openaiConfig = EmptyOpenAIConfig
    /\ configError = Undef
    /\ cfgInput = NoConfig
    /\ authRegistry = [p \in SupportedProviders |-> Unregistered]
    /\ NoSearchDone
    /\ orPayload \in OpenRouterPayloads
    /\ orCalled = FALSE

\* createOpenRouterWebsearchClient(model).search(query, signal, getAuth),
\* answered with status 200 and the body orPayload
OpenRouterSearch ==
    /\ ~orCalled
    /\ orCalled' = TRUE
    /\ LET o == openrouterSearch(<<"m">>, OpenRouterQuery,
                    Resolves(OpenRouterAuth, OPENROUTER_PROVIDER_ID),
                    [kind |-> "ok", response |-> [candidates |-> <<>>],
                     text |-> extractOutputText(orPayload), message |-> Undef])
       IN  Outcome(o)
    /\ call' = [NoCall EXCEPT !.op = "client.search", !.provider = OPENROUTER_PROVIDER_ID,
                              !.query = OpenRouterQuery]
    /\ UNCHANGED <<spliceVars, formatVars, oauthVars, raceVars, decodeVars, orPayload, loaded, geminiVars,
                   citedVars, authRegistry, gResult>>

OpenRouterNext == OpenRouterSearch

SpecOpenRouter == OpenRouterInit /\ [][OpenRouterNext]_vars

(***************************************************************************)
(* Claims about the formatter.                                             *)
(***************************************************************************)
\* The non-thought text of the first candidate, as the claims describe it.
AnswerText ==
    IF fResponse.candidates = <<>> \/ ~fResponse.candidates[1].hasParts THEN <<>>
    ELSE LET parts == fResponse.candidates[1].parts
         IN  Flatten([i \in DOMAIN parts |->
                 IF parts[i].thought \/ parts[i].text = Undef THEN <<>> ELSE parts[i].text])

AnswerBlank == \A i \in DOMAIN AnswerText : AnswerText[i] \in {" ", "\n"}

ChunksGiven ==
    IF fResponse.candidates = <<>> \/ ~fResponse.candidates[1].hasMeta
       \/ ~fResponse.candidates[1].hasChunks
    THEN <<>>
    ELSE fResponse.candidates[1].chunks

SupportsGiven ==
    IF fResponse.candidates = <<>> \/ ~fResponse.candidates[1].hasMeta
       \/ ~fResponse.candidates[1].hasSupports
    THEN <<>>
    ELSE fResponse.candidates[1].supports

\* C1: when the first candidate's non-thought text parts concatenate to an
\* empty or whitespace-only string, formatWebSearchResponse returns exactly
\* the fallback message for the query, the display "No information found."
\* and no sources, whatever grounding metadata the response carries.
C1_Fallback ==
    (fCalled /\ AnswerBlank) =>
        /\ fResult.llmContent =
               <<"No search results or information found for query: ", "\"">>
               \o fQuery \o <<"\"">>
        /\ fResult.returnDisplay = <<"No information found.">>
        /\ ~fResult.hasSources
        /\ fResult.sources = <<>>
        /\ ~fResult.hasError

\* C1 witness: a formatted response with only a thought part and a blank
\* part, carrying chunks and supports.
C1_Witness ==
    /\ fCalled
    /\ AnswerBlank
    /\ Len(ChunksGiven) > 0
    /\ Len(SupportsGiven) > 0
    /\ \E i \in DOMAIN fResponse.candidates[1].parts :
           /\ fResponse.candidates[1].parts[i].thought
           /\ fResponse.candidates[1].parts[i].text = <<"a">>

\* C2: whenever the result carries sources, every citation number inserted
\* into the body lies in 1..sources.length, for any chunk indices sent.
C2_MarkersInRange ==
    (fCalled /\ fResult.hasSources) =>
        \A i \in DOMAIN fInsertions :
            \A j \in DOMAIN fInsertions[i].numbers :
                fInsertions[i].numbers[j] \in 1..Len(fResult.sources)

\* C5: with groundingChunks absent or empty the body is the extracted answer
\* text unchanged: no marker, no Sources block, no sources field, even when
\* groundingSupports is non-empty.
C5_NoSourcesBodyUnchanged ==
    (fCalled /\ ~AnswerBlank /\ Len(ChunksGiven) = 0) =>
        /\ fResult.llmContent =
               <<"Web search results for ", "\"">> \o fQuery
               \o <<"\"", ":", "\n", "\n">> \o AnswerText
        /\ ~fResult.hasSources
        /\ fResult.sources = <<>>

\* C5 witness: an answer without chunks whose metadata has a usable support.
C5_Witness ==
    /\ fCalled
    /\ ~AnswerBlank
    /\ Len(ChunksGiven) = 0
    /\ \E i \in DOMAIN SupportsGiven :
           /\ SupportsGiven[i].hasSegment
           /\ SupportsGiven[i].hasEndIndex
           /\ Len(SupportsGiven[i].indices) > 0

ExpectedSourceLine(chunk, n) ==
    <<"[">> \o NumberToString(n) \o <<"]", " ">>
    \o (IF chunk.hasWeb /\ chunk.title \notin {Undef, <<>>} THEN chunk.title ELSE <<"Untitled">>)
    \o <<" ", "(">>
    \o (IF chunk.hasWeb /\ chunk.uri \notin {Undef, <<>>} THEN chunk.uri ELSE <<"No URI">>)
    \o <<")">>

ExpectedSourcesBlock ==
    <<"\n", "\n", "Sources:", "\n">>
    \o Join([n \in DOMAIN ChunksGiven |-> ExpectedSourceLine(ChunksGiven[n], n)], <<"\n">>)

EndsWith(s, suffix) ==
    /\ Len(s) >= Len(suffix)
    /\ SubSeq(s, Len(s) - Len(suffix) + 1, Len(s)) = suffix

\* C6: with groundingChunks non-empty the body ends with one blank line, the
\* line "Sources:" and exactly one line "[n] title (uri)" per chunk in chunk
\* order, nothing after it; chunks are not deduplicated and the sources field
\* is the chunk list as received.
C6_SourcesBlock ==
    (fCalled /\ ~AnswerBlank /\ Len(ChunksGiven) > 0) =>
        /\ EndsWith(fResult.llmContent, ExpectedSourcesBlock)
        /\ Cardinality({i \in DOMAIN fResult.llmContent :
                           fResult.llmContent[i] = "Sources:"}) = 1
        /\ fResult.hasSources
        /\ fResult.sources = ChunksGiven

\* C6 witness: the same URL at two chunk positions.
C6_Witness ==
    /\ fCalled
    /\ ~AnswerBlank
    /\ Len(ChunksGiven) >= 2
    /\ ChunksGiven[1].hasWeb
    /\ ChunksGiven[1] = ChunksGiven[2]

(***************************************************************************)
(* Claims about the splicer.                                               *)
(***************************************************************************)
TextBytesOf(parts) ==
    Flatten([i \in DOMAIN parts |-> IF parts[i].kind = "text" THEN parts[i].bytes ELSE <<>>])

\* C3: for every text and every list of insertions (any integer indices) the
\* output holds the original text's bytes exactly once each and in their
\* original order, so that deleting the inserted markers gives back the
\* text; with an empty insertion list the text is returned unchanged.
C3_BytesPreserved ==
    sCalled =>
        /\ Len(sInsertions) = 0 => sOut = sText
        /\ Len(sInsertions) > 0 => TextBytesOf(sParts) = Encode(sText)

\* C4: splicing never corrupts multi-byte encoding: every character of the
\* original text appears intact in the output, which decodes to the original
\* characters plus the markers (no U+FFFD stands in for a broken character).
C4_NoCorruption ==
    sCalled => Replacement \notin Range(sOut)

(***************************************************************************)
(* Claims about the plugins.                                               *)
(***************************************************************************)
\* Empty or whitespace-only, as the claims describe it.
IsBlank(q) == q = Undef \/ \A i \in DOMAIN q : q[i] \in {" ", "\n"}

\* The argument keys of the last call other than `query`.
ExtraKeysGiven == SelectSeq(call.keys, LAMBDA key : key # "query")

\* s without its leading and trailing whitespace.
Stripped(s) ==
    LET kept == {i \in DOMAIN s : s[i] \notin {" ", "\n"}}
    IN  IF kept = {} THEN <<>>
        ELSE SubSeq(s, CHOOSE i \in kept : \A j \in kept : i <= j,
                       CHOOSE i \in kept : \A j \in kept : i >= j)

Contains(s, t) == \E i \in 1..(Len(s) - Len(t) + 1) : SubSeq(s, i, i + Len(t) - 1) = t

UnknownArgumentsMessage ==
    <<"Unknown argument(s): ">>
    \o Flatten([i \in DOMAIN ExtraKeysGiven |->
           IF i = 1 THEN <<ExtraKeysGiven[i]>> ELSE <<", ", ExtraKeysGiven[i]>>])
    \o <<", only ", "'query'", " supported.">>

\* C8: websearch_cited execute called with any argument key other than
\* `query` throws "Unknown argument(s): <extra keys>, only 'query'
\* supported." whatever the query, the configuration and the registered
\* callbacks are, asks for no credentials and sends no request.
C8_ExtraArgumentsRejected ==
    (call.op = "websearch_cited" /\ ExtraKeysGiven # <<>>) =>
        /\ thrown = UnknownArgumentsMessage
        /\ returned = Undef
        /\ requests = <<>>
        /\ authAsked = {}

\* C8 witness: two extra keys around `query`, a blank query, no model
\* configured and no callback registered.
C8_Witness ==
    /\ call.op = "websearch_cited"
    /\ call.keys = <<"format", "query", "limit">>
    /\ IsBlank(call.query)
    /\ selectedProvider = NoProvider
    /\ \A p \in SupportedProviders : authRegistry[p] = Unregistered
    /\ thrown = <<"Unknown argument(s): ", "format", ", ", "limit", ", only ",
                  "'query'", " supported.">>

\* The last call was websearch_cited execute with `query` as its only key,
\* a query that is not blank and a provider selected without error.
ReachedProvider ==
    /\ call.op = "websearch_cited"
    /\ ExtraKeysGiven = <<>>
    /\ ~IsBlank(call.query)
    /\ configError = Undef
    /\ selectedProvider # NoProvider

\* The credential a provider's registered callback resolves to, if any.
HasCredential(p) ==
    /\ authRegistry[p].behaviour = "resolves"
    /\ authRegistry[p].auth.type # "none"

\* C9: when the selected provider has no registered callback, or its
\* callback resolves to no credentials, websearch_cited execute throws an
\* error containing 'Missing auth for provider "<id>"' with the selected
\* provider's id and sends no request; and no call asks another provider's
\* callback or sends another provider's credential.
C9_MissingAuth ==
    /\ (ReachedProvider /\ ~HasCredential(selectedProvider)) =>
           /\ thrown # Undef
           /\ Contains(thrown, <<"Missing auth for provider ", "\"", selectedProvider, "\"">>)
           /\ returned = Undef
           /\ requests = <<>>
    /\ call.op = "websearch_cited" =>
           /\ authAsked \subseteq {selectedProvider}
           /\ \A i \in DOMAIN requests :
                  /\ HasCredential(selectedProvider)
                  /\ requests[i].credential = Stripped(authRegistry[selectedProvider].auth.secret)
                  /\ \A p \in SupportedProviders \ {selectedProvider} :
                         requests[i].credential # Stripped(authRegistry[p].auth.secret)

\* C9 witness: openrouter is selected and has no callback while google and
\* openai have credentials, and the call throws.
C9_Witness ==
    /\ ReachedProvider
    /\ selectedProvider = "openrouter"
    /\ authRegistry["openrouter"] = Unregistered
    /\ HasCredential("google")
    /\ HasCredential("openai")
    /\ thrown # Undef
    /\ requests = <<>>

\* An entry the selection rule of C10 accepts.
ValidEntry(e) ==
    /\ e.isObject /\ e.optionsIsRecord /\ e.hasCited /\ e.citedIsRecord
    /\ e.model # Undef /\ e.model # NonString /\ ~IsBlank(e.model)
    /\ e.id \in {"google", "openai", "openrouter"}

ValidPositions == {i \in DOMAIN cfgInput.provider : ValidEntry(cfgInput.provider[i])}

FirstValidEntry == cfgInput.provider[CHOOSE i \in ValidPositions : \A j \in ValidPositions : i <= j]

\* The config hook has run on cfgInput.
HookRan == call.op = "config" \/ selectedProvider # NoProvider \/ configError # Undef

\* C10: once the config hook has run, the selected provider and model are
\* the id and the trimmed model of the first valid entry of the provider
\* object as written, no configuration error is kept, and a call of the
\* tool does not throw; without a valid entry nothing is selected.
C10_FirstValidSelected ==
    HookRan =>
        IF ValidPositions # {}
        THEN /\ selectedProvider = FirstValidEntry.id
             /\ selectedModel = Stripped(FirstValidEntry.model)
             /\ configError = Undef
             /\ call.op = "websearch_cited" => (thrown = Undef /\ returned # Undef)
        ELSE /\ selectedProvider = NoProvider
             /\ selectedModel = Undef

\* C10 witness: an openai entry with a blank model comes before a valid
\* google entry, google is selected and the tool returns.
C10_Witness ==
    /\ Len(cfgInput.provider) = 2
    /\ cfgInput.provider[1].id = "openai"
    /\ cfgInput.provider[1].citedIsRecord
    /\ cfgInput.provider[1].model = <<" ">>
    /\ cfgInput.provider[2].id = "google"
    /\ selectedProvider = "google"
    /\ selectedModel = <<"m">>
    /\ call.op = "websearch_cited"
    /\ returned # Undef

\* The provider entries in the order the config object enumerates them.
EntriesGiven == ObjectEntries(cfgInput.provider)

\* An entry that has a websearch_cited key but is not a valid selection.
InvalidCitedEntry(e) ==
    /\ e.isObject /\ e.optionsIsRecord /\ e.hasCited
    /\ ~ValidEntry(e)

InvalidPositions == {i \in DOMAIN EntriesGiven : InvalidCitedEntry(EntriesGiven[i])}

\* The message C11 expects for an invalid entry.
InvalidEntryMessage(e) ==
    IF ~e.citedIsRecord
    THEN <<"Invalid websearch_cited configuration for provider ", "\"", e.id, "\"", ".">>
    ELSE IF e.model = Undef \/ e.model = NonString \/ IsBlank(e.model)
    THEN <<"Missing websearch_cited model for provider ", "\"", e.id, "\"", ".">>
    ELSE <<"Unsupported provider ", "\"", e.id, "\"", " for websearch_cited.">>

\* What execute must throw after the hook ran on a config without a valid entry.
ExpectedConfigMessage ==
    IF InvalidPositions = {} THEN <<"Missing web search model configuration.">>
    ELSE InvalidEntryMessage(
             EntriesGiven[CHOOSE i \in InvalidPositions : \A j \in InvalidPositions : i <= j])

\* A call of websearch_cited execute with a valid query right after the
\* config hook ran on a config without a valid entry, or before any hook.
C11_Step ==
    (call'.op = "websearch_cited" /\ ~IsBlank(call'.query) /\ call'.keys = <<"query">>) =>
        /\ (call.op = "config" /\ ValidPositions = {}) =>
               /\ thrown' = ExpectedConfigMessage
               /\ returned' = Undef /\ requests' = <<>> /\ authAsked' = {}
        /\ call = NoCall =>
               /\ thrown' = <<"Missing web search model configuration.">>
               /\ returned' = Undef /\ requests' = <<>> /\ authAsked' = {}

\* C11: when no provider entry yields a valid selection the config hook does
\* not fail, and a later websearch_cited execute with a valid query throws
\* the message of the first invalid websearch_cited entry of the config
\* object, or "Missing web search model configuration." when there is none
\* or the hook was never called, without asking credentials or sending a
\* request.
C11_NoSelectionReported ==
    /\ [](call.op = "config" => (thrown = Undef /\ requests = <<>>))
    /\ [][C11_Step]_vars

\* C11 witness: two invalid entries, and execute threw the first one's message.
C11_Witness ==
    /\ call.op = "websearch_cited"
    /\ Len(cfgInput.provider) = 2
    /\ cfgInput.provider[1].id = "openai"
    /\ cfgInput.provider[1].model = <<" ">>
    /\ cfgInput.provider[2].id = "google"
    /\ cfgInput.provider[2].hasCited /\ ~cfgInput.provider[2].citedIsRecord
    /\ thrown = <<"Missing websearch_cited model for provider ", "\"", "openai", "\"", ".">>
    /\ requests = <<>>

\* The API key a loader callback yields, as C12 describes it: the trimmed
\* key of API-key auth when it is not blank.
KeyObtained(getAuth) ==
    IF getAuth.behaviour = "resolves" /\ getAuth.auth.type = "api"
       /\ ~IsBlank(getAuth.auth.secret)
    THEN Stripped(getAuth.auth.secret)
    ELSE Undef

FailureMessage == (CHOOSE n \in NetOutcomes : n.kind = "error").message

\* C13: geminisearch execute never throws: it returns the serialised
\* result, which carries an error for an empty query, for a missing key and
\* for a rejected Gemini call; in the last case error.type is
\* GEMINI_WEB_SEARCH_FAILED and llmContent and error.message both contain
\* the message of the underlying error.
C13_ErrorsReturned ==
    call.op = "geminisearch" =>
        /\ thrown = Undef
        /\ returned # Undef
        /\ returned = gResult.llmContent
        /\ IsBlank(call.query) =>
               (gResult.hasError /\ gResult.error.type = <<"INVALID_QUERY">>)
        /\ (~IsBlank(call.query) /\ requests = <<>>) =>
               (gResult.hasError /\ gResult.error.type = <<"MISSING_GEMINI_API_KEY">>)
        /\ (requests # <<>> /\ call.net = "error") =>
               /\ gResult.hasError
               /\ gResult.error.type = <<"GEMINI_WEB_SEARCH_FAILED">>
               /\ Contains(gResult.llmContent, FailureMessage)
               /\ Contains(gResult.error.message, FailureMessage)
        /\ (requests # <<>> /\ call.net # "error") => ~gResult.hasError

\* C13 witness: the Gemini call was made with a key and rejected.
C13_Witness ==
    /\ call.op = "geminisearch"
    /\ call.net = "error"
    /\ Len(requests) = 1
    /\ gResult.error.type = <<"GEMINI_WEB_SEARCH_FAILED">>
    /\ returned # Undef

\* C14: every result that carries an error has an llmContent that begins
\* with "Error: " and contains error.message verbatim, and carries no
\* sources; a result produced by formatWebSearchResponse carries no error.
C14_ErrorResultShape ==
    /\ gResult.hasError =>
           /\ gResult.llmContent # Undef
           /\ Len(gResult.llmContent) > 0
           /\ gResult.llmContent[1] = "Error: "
           /\ Contains(gResult.llmContent, gResult.error.message)
           /\ ~gResult.hasSources
           /\ gResult.sources = <<>>
    /\ (call.op = "geminisearch" /\ requests # <<>> /\ call.net # "error") =>
           /\ gResult = formatWebSearchResponse(
                            (CHOOSE n \in NetOutcomes : NetTag(n) = call.net).response,
                            Stripped(call.query))
           /\ ~gResult.hasError

\* C14 witness: an error result whose error.message is the details string,
\* not the message displayed.
C14_Witness ==
    /\ gResult.hasError
    /\ gResult.error.message # gResult.returnDisplay
    /\ gResult.error.message[1] = "Gemini web search request failed: "
    /\ gResult.llmContent[1] = "Error: "

(***************************************************************************)
(* Claims about the Google OAuth search.                                   *)
(***************************************************************************)
\* C15: every HTTP request issued on behalf of one search invocation (token
\* refresh, loadCodeAssist, generateContent) is given that invocation's
\* abort signal.
C15_EveryRequestCarriesSignal ==
    \A i \in 1..Len(requests) : requests[i].signal

(***************************************************************************)
(* Claims about the OpenRouter client.                                     *)
(***************************************************************************)
\* The output_text parts of the message items of a body, in order.
RECURSIVE OutputTextParts(_)
OutputTextParts(output) ==
    IF output = <<>> THEN <<>>
    ELSE (IF Head(output).type = "message" /\ Head(output).hasContent
          THEN SelectSeq(Head(output).content, LAMBDA part : part.type = "output_text")
          ELSE <<>>)
         \o OutputTextParts(Tail(output))

\* The url_citation annotations of the parts, in order, each with the
\* character offset of its end_index in the concatenated text.
RECURSIVE Citations(_, _)
Citations(parts, base) ==
    IF parts = <<>> THEN <<>>
    ELSE [i \in 1..Len(Head(parts).annotations) |->
            [url |-> Head(parts).annotations[i].url,
             offset |-> base + Head(parts).annotations[i].end_index]]
         \o Citations(Tail(parts), base + Len(Head(parts).text))

PayloadCitations == Citations(OutputTextParts(orPayload.output), 0)

\* The cited URLs, deduplicated, in order of first appearance.
CitedUrls == Unique([i \in 1..Len(PayloadCitations) |-> PayloadCitations[i].url], {})

CitationNumber(url) == CHOOSE n \in 1..Len(CitedUrls) : CitedUrls[n] = url

MarkerTokens == {"[", "]"} \cup { DigitChars[d] : d \in 1..10 }

\* Is the marker [n] written in text from position i on, after `offset`
\* characters that belong to no marker?
MarkerAt(text, i, n, offset) ==
    /\ i + 2 <= Len(text)
    /\ SubSeq(text, i, i + 2) = <<"[">> \o NatToString(n) \o <<"]">>
    /\ Cardinality({ j \in 1..(i - 1) : text[j] \notin MarkerTokens }) = offset

Occurrences(text, token) == Cardinality({ j \in 1..Len(text) : text[j] = token })

\* The body's parts carry annotations and the body has no direct output_text.
CarriesAnnotations ==
    /\ orPayload.output_text = Undef
    /\ PayloadCitations # <<>>

\* C16: for an OpenRouter response whose output_text parts carry url_citation
\* annotations, the returned text has a [n] marker at each annotation's
\* end_index (a character offset), n being the rank of the annotation's URL
\* among the distinct URLs in order of first appearance, and each distinct
\* URL is listed once.
C16_UrlCitationsRendered ==
    (orCalled /\ CarriesAnnotations) =>
        /\ returned # Undef
        /\ \A c \in 1..Len(PayloadCitations) :
              \E i \in 1..Len(returned) :
                  MarkerAt(returned, i, CitationNumber(PayloadCitations[c].url),
                           PayloadCitations[c].offset)
        /\ \A u \in 1..Len(CitedUrls) : Occurrences(returned, CitedUrls[u][1]) = 1

IsTokenRequest(r) == r.endpoint = OAUTH_TOKEN_ENDPOINT

IsLoadRequest(r) == r.endpoint[2] = GEMINI_CODE_ASSIST_LOAD_PATH

IsGenerateRequest(r) == r.endpoint[2] = GEMINI_CODE_ASSIST_GENERATE_PATH

TokenRequests == { i \in 1..Len(requests) : IsTokenRequest(requests[i]) }

LoadRequests == { i \in 1..Len(requests) : IsLoadRequest(requests[i]) }

GenerateRequests == { i \in 1..Len(requests) : IsGenerateRequest(requests[i]) }

Unauthorized(attempt) == attempt.has /\ ~attempt.ok /\ attempt.status \in {401, 403}

\* A second attempt follows a first attempt that ended 401 or 403; the only
\* token request of the search lies between the requests of the two
\* attempts, and the second attempt's requests carry the token it issued.
C17_SecondAttempt ==
    /\ oauth.attempt \in 0..2
    /\ oauth.attempt = 2 =>
          /\ Unauthorized(oauth.firstAttempt)
          /\ \E k \in TokenRequests :
                /\ TokenRequests = {k}
                /\ \E g \in GenerateRequests : g < k
                /\ k < Len(requests)
                /\ \A j \in (k + 1)..Len(requests) :
                      /\ IsGenerateRequest(requests[j])
                      /\ requests[j].credential = IssuedToken(tokensIssued)
                /\ \A j \in 1..(k - 1) : requests[j].credential # IssuedToken(tokensIssued)

\* A search whose last attempt failed has thrown.
C17_FailureThrows ==
    (oauth.pc = "done" /\ ( \/ (oauth.retry.has /\ ~oauth.retry.ok)
                            \/ (oauth.attempt = 1 /\ oauth.firstAttempt.has
                                /\ ~oauth.firstAttempt.ok) ))
        => (thrown # Undef /\ returned = Undef)

\* The forced refresh starts only from a first attempt that ended 401 or 403
\* in a search that has not refreshed, with the cached token removed; the
\* second attempt starts only from the forced refresh, with the new token.
C17_Step ==
    /\ (oauth'.pc = "forcedRefresh" /\ oauth.pc # "forcedRefresh") =>
          /\ oauth.pc = "generate"
          /\ oauth.attempt = 1
          /\ ~oauth.refreshedThisRequest
          /\ Unauthorized(oauth'.firstAttempt)
          /\ tokenCache'[oauth.refreshToken] = NoCachedToken
          /\ requests' = Append(requests, Request(OAUTH_TOKEN_ENDPOINT, oauth.refreshToken,
                                                  FALSE))
    /\ (oauth'.attempt = 2 /\ oauth.attempt # 2) =>
          /\ oauth.pc = "forcedRefresh"
          /\ tokensIssued' = tokensIssued + 1
          /\ oauth'.accessToken = IssuedToken(tokensIssued')
          /\ tokenCache'[oauth.refreshToken].accessToken = oauth'.accessToken
          /\ requests'[Len(requests')].credential = oauth'.accessToken
    /\ (oauth.attempt = 2 /\ oauth'.pc = "generate") => oauth'.attempt = 2 \/ oauth.pc = "done"
    /\ (oauth.attempt = 2 /\ oauth.pc = "generate") => oauth'.pc \in {"generate", "done"}

\* C17: in the OAuth Google search a second generateContent attempt is made
\* only if the first attempt ended with HTTP 401 or 403 and no token refresh
\* had been performed in this invocation; it is preceded by removing the
\* cached token and a forced token refresh and uses the newly refreshed
\* token; there is never a third attempt, and if the retry fails, or the first
\* failure is not retryable, search throws.
C17_RetryOnce ==
    /\ [](C17_SecondAttempt /\ C17_FailureThrows)
    /\ [][C17_Step]_vars

\* A retry after 403 or 401 has been made with a newly issued token and
\* returned a result.
C17_Witness ==
    /\ oauth.pc = "done"
    /\ oauth.attempt = 2
    /\ Unauthorized(oauth.firstAttempt)
    /\ oauth.retry.has /\ oauth.retry.ok
    /\ returned # Undef

\* C18: a single OAuth Google search invocation sends at most one
\* token-refresh request to the OAuth token endpoint, whether the refresh
\* happens up front or after a 401/403 from generateContent.
C18_OneTokenRefresh ==
    /\ Cardinality(TokenRequests) <= 1
    /\ oauth.pc \in {"refresh", "forcedRefresh"} => IsTokenRequest(requests[Len(requests)])

\* A search refreshed its token up front, got 401 or 403 from
\* generateContent and ended having sent one token request.
C18_Witness ==
    /\ oauth.pc = "done"
    /\ oauth.refreshedThisRequest
    /\ Unauthorized(oauth.firstAttempt)
    /\ Cardinality(TokenRequests) = 1
    /\ IsTokenRequest(requests[1])

\* C19: a single OAuth Google search invocation performs at most one
\* project-resolution round trip: at most one loadCodeAssist HTTP request is
\* sent per search, whatever the responses of the Code Assist endpoints.
C19_OneLoadRequest == Cardinality(LoadRequests) <= 1

\* Did the search in progress find a cache entry it could use when it began?
CacheUsableAtStart ==
    /\ oauth.cachedAtStart.has
    /\ oauth.cachedAtStart.expiresAt > oauth.startTime + 60000

\* The access token the search began with: cached, else supplied by getAuth.
StartToken ==
    IF CacheUsableAtStart THEN oauth.cachedAtStart.accessToken
    ELSE IF oauth.auth.access = Undef THEN <<>>
    ELSE Trim(oauth.auth.access)

\* That token is blank, or its expiry is missing, non-finite or no more than
\* 60 s after the start of the search.
StartTokenUnusable ==
    \/ StartToken = <<>>
    \/ /\ ~CacheUsableAtStart
       /\ \/ oauth.auth.expires.kind \in {"missing", "nonNumber", "nonFinite"}
          \/ oauth.auth.expires.value <= oauth.startTime + 60000

\* C20: if at the start of an OAuth Google search the effective access token
\* is blank, or its expiry is missing, non-finite or no more than 60 s in the
\* future, then no loadCodeAssist or generateContent request is sent before
\* a token refresh has succeeded, those requests carry the refreshed token as
\* bearer, and if the refresh fails the search throws without sending them.
C20_RefreshBeforeUse ==
    (oauth.pc # "idle" /\ oauth.refreshToken # <<>> /\ StartTokenUnusable) =>
        /\ Len(requests) >= 1
        /\ IsTokenRequest(requests[1])
        /\ requests[1].credential = oauth.refreshToken
        /\ ~oauth.refreshedThisRequest =>
              /\ Len(requests) = 1
              /\ oauth.pc \in {"refresh", "done"}
              /\ oauth.pc = "done" => (thrown # Undef /\ returned = Undef)
        /\ \A j \in LoadRequests \cup GenerateRequests :
              /\ j > 1
              /\ oauth.refreshedThisRequest
              /\ requests[j].credential = oauth.accessToken
              /\ requests[j].credential = IssuedToken(tokensIssued)
              /\ requests[j].credential # StartToken

\* A search that began with a token about to expire has refreshed it,
\* resolved the project and returned a result.
C20_Witness ==
    /\ oauth.pc = "done"
    /\ StartTokenUnusable
    /\ StartToken # <<>>
    /\ oauth.auth.expires.kind = "number"
    /\ LoadRequests # {}
    /\ GenerateRequests # {}
    /\ returned # Undef

\* The requests of the search in progress sent before its first token
\* request (all of them when it has sent none).
BeforeRefresh ==
    { j \in 1..Len(requests) : \A k \in TokenRequests : j < k }

\* A search that finds a usable cache entry sends its requests with the
\* cached token and asks for a new token only after a 401 or 403.
C21_CachedTokenUsed ==
    (oauth.pc # "idle" /\ oauth.refreshToken # <<>> /\ CacheUsableAtStart) =>
        /\ \A j \in BeforeRefresh : requests[j].credential = oauth.cachedAtStart.accessToken
        /\ TokenRequests # {} => Unauthorized(oauth.firstAttempt)
        /\ oauth.pc \in {"load", "generate"} /\ TokenRequests = {} =>
              /\ tokenCache[oauth.refreshToken].has
              /\ tokenCache[oauth.refreshToken].accessToken = oauth.cachedAtStart.accessToken

\* A search that finds a cache entry within 60 s of expiry sends no request
\* with that entry's token (unless getAuth supplies that very token).
C21_StaleTokenUnused ==
    (oauth.pc # "idle" /\ oauth.refreshToken # <<>> /\ oauth.cachedAtStart.has
        /\ ~CacheUsableAtStart /\ StartToken # oauth.cachedAtStart.accessToken) =>
        \A j \in LoadRequests \cup GenerateRequests :
            requests[j].credential # oauth.cachedAtStart.accessToken

\* The step that starts a search removes a cache entry within 60 s of
\* expiry and leaves a usable one as it is.
C21_Step ==
    (searchesStarted' = searchesStarted + 1 /\ oauth'.refreshToken # <<>>) =>
        LET entry == tokenCache[oauth'.refreshToken]
        IN  /\ (entry.has /\ entry.expiresAt <= now + 60000) =>
                  tokenCache'[oauth'.refreshToken] # entry
            /\ (entry.has /\ entry.expiresAt > now + 60000) =>
                  /\ tokenCache'[oauth'.refreshToken] = entry
                  /\ oauth'.pc \notin {"refresh", "forcedRefresh"}

\* C21: after a search has cached an access token for a refresh token with
\* an expiry more than 60 s ahead, every later search with that refresh
\* token, while the entry is more than 60 s from expiry and not invalidated
\* by a 401/403, sends no token-refresh request and uses the cached token as
\* bearer, whatever getAuth supplies; an entry found within 60 s of expiry is
\* removed and never used.
C21_CacheReuse ==
    /\ [](C21_CachedTokenUsed /\ C21_StaleTokenUnused)
    /\ [][C21_Step]_vars

\* A later search was handed another token without an expiry, found the
\* token an earlier search cached, and returned a result using it, with no
\* token request.
C21_Witness ==
    /\ oauth.pc = "done"
    /\ searchesStarted = 2
    /\ CacheUsableAtStart
    /\ oauth.cachedAtStart.accessToken = IssuedToken(1)
    /\ oauth.auth.expires.kind = "missing"
    /\ TokenRequests = {}
    /\ GenerateRequests # {}
    /\ returned # Undef

\* The i-th `|` field of the refresh string of auth details, trimmed; empty
\* when there is none.
RefreshField(auth, i) ==
    LET fields == SplitOnBar(Trim(auth.refresh), <<>>)
    IN  IF i <= Len(fields) THEN Trim(fields[i]) ELSE <<>>

\* The project ids loadCodeAssist can answer with.
LoadedProjects == { r.project : r \in { x \in LoadResponses : x.ok /\ x.projectKind = "string" } }

\* The step in which a search settles the project id it sends: the
\* precedence of the sources, when loadCodeAssist is asked, and what is
\* written to the project cache.
C22_Step ==
    LET R == oauth'.refreshToken
        managed == RefreshField(oauth'.auth, 3)
        project == RefreshField(oauth'.auth, 2)
        sent == oauth'.effectiveProjectId
        loadAsked == { j \in 1..Len(requests') : IsLoadRequest(requests'[j]) } # {}
    IN  /\ (sent # Undef /\ (oauth.effectiveProjectId = Undef
                              \/ searchesStarted' # searchesStarted)) =>
              IF managed # <<>>
              THEN sent = managed /\ ~loadAsked /\ projectCache' = projectCache
              ELSE IF projectCache[R] # Undef
              THEN sent = projectCache[R] /\ ~loadAsked /\ projectCache' = projectCache
              ELSE /\ loadAsked
                   /\ oauth.pc = "load"
                   /\ \/ sent \in LoadedProjects /\ projectCache'[R] = sent
                      \/ /\ projectCache' = projectCache
                         /\ sent = IF project # <<>> THEN project
                                   ELSE ANTIGRAVITY_DEFAULT_PROJECT_ID
        /\ (oauth'.pc = "load" /\ oauth.pc # "load") =>
              (managed = <<>> /\ projectCache[R] = Undef)
        /\ projectCache' # projectCache =>
              (oauth.pc = "load" /\ projectCache'[oauth.refreshToken] \in LoadedProjects
               /\ projectCache'[oauth.refreshToken] = sent)

\* Once settled, the project id of a search does not change, and
\* generateContent is asked only with a project settled.
C22_ProjectSettled ==
    /\ GenerateRequests # {} => oauth.effectiveProjectId # Undef
    /\ LoadRequests # {} => RefreshField(oauth.auth, 3) = <<>>

\* C22: the project id sent with an OAuth generateContent request is the
\* managed project id of the refresh string's third field; else the project
\* cached for the refresh token; else the managed project loadCodeAssist
\* returns (then cached); else the project id of the second field; else the
\* built-in default.  loadCodeAssist is asked only when the first two are
\* absent, and the project cache is written only with an id it returned.
C22_ProjectPrecedence ==
    /\ []C22_ProjectSettled
    /\ [][C22_Step]_vars

\* A search whose refresh string names a project but no managed project
\* asked loadCodeAssist, got no project, and sent the named project.
C22_Witness ==
    /\ oauth.pc = "done"
    /\ oauth.auth.refresh = <<"rt", "|", "proj">>
    /\ LoadRequests # {}
    /\ projectCache[oauth.refreshToken] = Undef
    /\ oauth.effectiveProjectId = <<"proj">>
    /\ returned # Undef

(***************************************************************************)
(* Claims about two OAuth searches running at once.                        *)
(***************************************************************************)
\* Did searcher p find the access token expired, and so ask for a new one
\* first?
FoundExpired(p) ==
    /\ race[p].requests # <<>>
    /\ IsTokenRequest(race[p].requests[1])

\* The access tokens the token endpoint has issued.
IssuedTokens == { IssuedToken(k) : k \in 1..tokensIssued }

\* C23: when two searches that share the refresh token run at once and both
\* find the access token expired, each may send its own token request, and
\* this is harmless: in every interleaving no search fails, each sends its
\* later requests with a token issued by a refresh for that refresh token,
\* and when both are done the token cache holds one of those tokens.
C23_RedundantRefreshHarmless ==
    (\A p \in Searchers : FoundExpired(p)) =>
        /\ \A p \in Searchers :
              /\ race[p].thrown = Undef
              /\ race[p].o.pc = "done" => race[p].returned # Undef
              /\ \A j \in 2..Len(race[p].requests) :
                    /\ ~IsTokenRequest(race[p].requests[j])
                    /\ race[p].requests[j].credential \in IssuedTokens
                    /\ race[p].requests[j].credential = race[p].o.accessToken
        /\ (\A p \in Searchers : race[p].o.pc = "done") =>
              /\ tokenCache[<<"rt">>].has
              /\ tokenCache[<<"rt">>].accessToken \in { race[p].o.accessToken : p \in Searchers }
              /\ tokenCache[<<"rt">>].accessToken \in IssuedTokens

\* Both searches asked for a token of their own, got different ones and
\* returned a result.
C23_Witness ==
    /\ \A p \in Searchers : FoundExpired(p) /\ race[p].o.pc = "done" /\ race[p].returned # Undef
    /\ tokensIssued = 2
    /\ race[1].o.accessToken # race[2].o.accessToken
    /\ tokenCache[<<"rt">>].accessToken = race[1].o.accessToken

(***************************************************************************)
(* Claims about the citation insertions.                                   *)
(***************************************************************************)
\* Does buildCitationInsertions run for this response?
InsertionsBuilt ==
    /\ fCalled
    /\ fResponseText # Undef
    /\ Trim(fResponseText) # <<>>
    /\ HasSources(fResponse)

\* The supports the claim says yield an insertion, in response order.
CitedSupports ==
    SelectSeq(IF FirstCandidate(fResponse).hasSupports
              THEN FirstCandidate(fResponse).supports ELSE <<>>,
              LAMBDA support : /\ support.hasSegment
                               /\ support.hasEndIndex
                               /\ support.hasIndices
                               /\ support.indices # <<>>)

\* `[i+1]` over the distinct chunk indices in ascending order.
RECURSIVE CitedMarker(_)
CitedMarker(indexSet) ==
    IF indexSet = {} THEN <<>>
    ELSE LET least == CHOOSE i \in indexSet : \A j \in indexSet : i <= j
         IN  <<"[">> \o NatToString(least + 1) \o <<"]">> \o CitedMarker(indexSet \ {least})

\* C24: each grounding support with an endIndex (0 included) and a
\* non-empty groundingChunkIndices yields exactly one insertion, at endIndex,
\* whose marker is `[i+1]` over its distinct chunk indices in ascending
\* order; every other support yields none and no error; the list is sorted
\* by descending index.
C24_OneInsertionPerSupport ==
    InsertionsBuilt =>
        /\ ~fResult.hasError
        /\ Len(fInsertions) = Len(CitedSupports)
        /\ \A index \in 0..4, indexSet \in SUBSET (0..MaxChunks) :
              Cardinality({ k \in DOMAIN fInsertions :
                              /\ fInsertions[k].index = index
                              /\ fInsertions[k].marker = CitedMarker(indexSet) })
              = Cardinality({ k \in DOMAIN CitedSupports :
                              /\ CitedSupports[k].endIndex = index
                              /\ Range(CitedSupports[k].indices) = indexSet })
        /\ \A j, k \in DOMAIN fInsertions :
              j < k => fInsertions[j].index >= fInsertions[k].index

\* Supports of both kinds: one ending at 0, one with repeated indices, and
\* one that is skipped.
C24_Witness ==
    /\ InsertionsBuilt
    /\ Len(FirstCandidate(fResponse).supports) = 3
    /\ Len(fInsertions) = 2
    /\ fInsertions[1].index = 4
    /\ fInsertions[1].marker = <<"[", "1", "]", "[", "2", "]">>
    /\ fInsertions[2].index = 0

(***************************************************************************)
(* Claims about where the splicer puts its markers.                        *)
(***************************************************************************)
\* The byte offset the claim gives insertion k: its index, lowered to the
\* text's byte length and to the offset of the insertion before it.
RECURSIVE ClaimedOffset(_, _, _)
ClaimedOffset(insertions, k, length) ==
    IF k = 0 THEN length
    ELSE Min2(insertions[k].index, ClaimedOffset(insertions, k - 1, length))

\* The text's bytes from offset `from` on, with the markers of insertions
\* k, k-1, .., 1 each put right after the first ClaimedOffset bytes.
RECURSIVE PlacedFrom(_, _, _, _)
PlacedFrom(bytes, insertions, k, from) ==
    IF k = 0 THEN SubSeq(bytes, from + 1, Len(bytes))
    ELSE LET offset == ClaimedOffset(insertions, k, Len(bytes))
         IN  SubSeq(bytes, from + 1, offset) \o Encode(insertions[k].marker)
             \o PlacedFrom(bytes, insertions, k - 1, offset)

\* C25: for a text of L bytes and insertions with indices from 0 up, each
\* marker stands in the output immediately after the first `index` bytes of
\* the original text (byte offsets), markers with larger offsets later; an
\* index above L puts its marker at the very end, an index above the
\* position of the insertion processed before it is put at that position.
C25_MarkersAtByteOffsets ==
    (sCalled /\ \A k \in DOMAIN sInsertions : sInsertions[k].index >= 0) =>
        Encode(sOut) = PlacedFrom(Encode(sText), sInsertions, Len(sInsertions), 0)

\* The same placement for indices that fall between two characters.
C25_AtCharacterBoundaries ==
    (/\ sCalled
     /\ \A k \in DOMAIN sInsertions :
           \/ sInsertions[k].index >= Len(Encode(sText))
           \/ \E n \in 0..Len(sText) : sInsertions[k].index = Len(Encode(SubSeq(sText, 1, n)))) =>
        Encode(sOut) = PlacedFrom(Encode(sText), sInsertions, Len(sInsertions), 0)

(***************************************************************************)
(* Claims about the answer text.                                           *)
(***************************************************************************)
StartsWith(s, prefix) ==
    /\ Len(s) >= Len(prefix)
    /\ SubSeq(s, 1, Len(prefix)) = prefix

\* What follows the heading line in the returned content.
BodyReturned ==
    SubSeq(fResult.llmContent, Len(ResultPrefix(fQuery)) + 1, Len(fResult.llmContent))

\* C26: the answer text is the concatenation, in order, of the string text
\* fields of the first candidate's parts that are not flagged as thought;
\* the text of a thought part and the parts of later candidates are never
\* used.
C26_AnswerFromFirstCandidate ==
    fCalled =>
        /\ fResponseText = (IF AnswerText = <<>> THEN Undef ELSE AnswerText)
        /\ (~AnswerBlank /\ fInsertions = <<>>) =>
              /\ StartsWith(fResult.llmContent, ResultPrefix(fQuery) \o AnswerText)
              /\ \/ BodyReturned = AnswerText
                 \/ /\ Len(ChunksGiven) > 0
                    /\ BodyReturned = AnswerText \o SourcesBlock(ChunksGiven)

\* A thought part between two text parts, and a second candidate with text
\* of its own.
C26_Witness ==
    /\ fCalled
    /\ Len(fResponse.candidates) = 2
    /\ Len(FirstCandidate(fResponse).parts) = 3
    /\ FirstCandidate(fResponse).parts[2].thought
    /\ fResponseText = <<"a", "ko">>
    /\ fInsertions = <<>>
    /\ BodyReturned = <<"a", "ko">>

(***************************************************************************)
(* Claims about decoding Code Assist payloads.                             *)
(***************************************************************************)
\* The two shapes the claim names.
HasResponseObject(element) == element.isObject /\ element.response = "object"

HasCandidates(element) == element.isObject /\ element.candidates

Decoded == caResult.state # "none" /\ caPayload.kind \in {"scalar", "object", "array"}

\* C27: decoding follows a fixed precedence: an object with an object-valued
\* response field yields that field, even with candidates present; else an
\* object with candidates is used directly; an array holding an element of
\* either shape is decoded to that element's response; every other payload
\* is rejected with the error that the response did not include a valid
\* response payload.
C27_DecodePrecedence ==
    Decoded =>
        LET shaped == { i \in DOMAIN caPayload.items :
                          HasResponseObject(caPayload.items[i])
                          \/ HasCandidates(caPayload.items[i]) }
        IN  /\ (caPayload.kind = "object" /\ HasResponseObject(caPayload.items[1])) =>
                  caResult = DecodeReturn("response", 1)
            /\ (/\ caPayload.kind = "object"
                /\ ~HasResponseObject(caPayload.items[1])
                /\ HasCandidates(caPayload.items[1])) =>
                  caResult = DecodeReturn("candidates", 1)
            /\ (caPayload.kind = "array" /\ shaped # {}) =>
                  /\ caResult.state = "returned"
                  /\ caResult.item \in shaped
                  /\ caResult.from = (IF HasResponseObject(caPayload.items[caResult.item])
                                      THEN "response" ELSE "candidates")
            /\ (caPayload.kind = "scalar" \/ shaped = {}) =>
                  caResult = DecodeThrow(
                      <<"Google Code Assist response did not include a valid response payload">>)

\* The same precedence, an array being decoded through its first object
\* element only.
C27_FirstObjectDecoded ==
    Decoded =>
        LET first == FirstObject(caPayload.items)
            used == IF caPayload.kind = "array" THEN first
                    ELSE IF caPayload.kind = "object" THEN 1 ELSE 0
        IN  IF used # 0 /\ HasResponseObject(caPayload.items[used])
            THEN caResult = DecodeReturn("response", used)
            ELSE IF used # 0 /\ HasCandidates(caPayload.items[used])
            THEN caResult = DecodeReturn("candidates", used)
            ELSE caResult = DecodeThrow(
                     <<"Google Code Assist response did not include a valid response payload">>)

(***************************************************************************)
(* Claims about reading an OpenAI response body.                           *)
(***************************************************************************)
BodyRead == sseResult.state # "none"

NonBlankLines == { i \in DOMAIN sseBody : ~IsBlankLine(sseBody[i]) }

\* Is the body one JSON document of one of these kinds, with nothing but
\* whitespace around it?
BodyIsJson(kinds) ==
    \E i \in DOMAIN sseBody :
        /\ NonBlankLines = {i}
        /\ sseBody[i].prefix = "none"
        /\ sseBody[i].content \in kinds

\* The `data: ` events whose type is response.done or response.completed.
TerminalEvents ==
    { i \in DOMAIN sseBody :
        /\ sseBody[i].prefix = "data: "
        /\ sseBody[i].content = "event"
        /\ sseBody[i].type \in TerminalEventTypes }

\* The payload the event stream gives: the response of the first terminal
\* event, else the failure.
StreamPayload ==
    IF TerminalEvents # {}
       /\ sseBody[CHOOSE i \in TerminalEvents : \A j \in TerminalEvents : i <= j].hasResponse
    THEN DecodeReturn("sse", CHOOSE i \in TerminalEvents : \A j \in TerminalEvents : i <= j)
    ELSE DecodeThrow(<<"Failed to parse JSON">>)

\* C28: an empty body yields an empty payload; a body that parses as JSON is
\* used as is; otherwise the body is read as an event stream and the payload
\* is the response of the first data: event of type response.done or
\* response.completed; other events, [DONE] lines and unparsable lines never
\* supply it, and with no terminal event supplying one the call fails with
\* Failed to parse JSON.
C28_BodyAsJsonOrStream ==
    BodyRead =>
        IF NonBlankLines = {} THEN sseResult = DecodeReturn("empty", 0)
        ELSE IF BodyIsJson({"object", "array", "scalar"})
        THEN sseResult = DecodeReturn("json", CHOOSE i \in NonBlankLines : TRUE)
        ELSE sseResult = StreamPayload

\* C28 as amended: a JSON body is used as is when it is an object or an
\* array (its text starts with a brace or a bracket); every other body,
\* JSON scalars included, is read as an event stream as the claim says.
C28_BracketedJsonOrStream ==
    BodyRead =>
        IF NonBlankLines = {} THEN sseResult = DecodeReturn("empty", 0)
        ELSE IF BodyIsJson({"object", "array"})
        THEN sseResult = DecodeReturn("json", CHOOSE i \in NonBlankLines : TRUE)
        ELSE sseResult = StreamPayload

\* An event of another type that carries a response comes before the
\* terminal event, whose response is the payload.
C28_Witness ==
    /\ BodyRead
    /\ Len(sseBody) = 2
    /\ sseBody[1] = EventLine("data: ", "response.created", TRUE)
    /\ sseBody[2].type \in TerminalEventTypes
    /\ sseResult = DecodeReturn("sse", 2)

(***************************************************************************)
(* Claims about one generateContent attempt.                               *)
(***************************************************************************)
\* A step of requestGenerateContent: an endpoint's response is handled.
GenerateStep ==
    /\ oauth.pc = "generate"
    /\ <<oauth, requests, thrown, returned>>' # <<oauth, requests, thrown, returned>>

\* What search stored as the result of the attempt that was running.
StoredAfter == IF oauth.attempt = 1 THEN oauth'.firstAttempt ELSE oauth'.retry

\* The attempt ends and no further generateContent request is sent for it.
AttemptOver ==
    \/ requests' = requests
    \/ /\ Len(requests') = Len(requests) + 1
       /\ IsTokenRequest(requests'[Len(requests')])

\* The step the claim describes for a response; `succeeds` tells whether a
\* 2xx response ends the attempt with success.
GenerateOutcome(response, succeeds) ==
    IF response.ok
    THEN IF succeeds
         THEN /\ StoredAfter = [has |-> TRUE, ok |-> TRUE, status |-> 200]
              /\ returned' # Undef
              /\ thrown' = Undef
              /\ requests' = requests
         ELSE /\ ~StoredAfter.has
              /\ thrown' = <<"Empty response from Google Code Assist">>
              /\ returned' = Undef
              /\ oauth'.pc = "done"
              /\ requests' = requests
    ELSE IF response.status \in {401, 403}
    THEN /\ StoredAfter = [has |-> TRUE, ok |-> FALSE, status |-> response.status]
         /\ AttemptOver
    ELSE IF oauth.endpoint < 3
    THEN /\ oauth'.pc = "generate"
         /\ oauth'.attempt = oauth.attempt
         /\ oauth'.endpoint = oauth.endpoint + 1
         /\ oauth'.lastError = [has |-> TRUE, status |-> response.status,
                                message |-> response.message]
         /\ ~StoredAfter.has
         /\ thrown' = Undef /\ returned' = Undef
         /\ requests' = Append(requests,
                               Request(<<CODE_ASSIST_GENERATE_ENDPOINTS[oauth.endpoint + 1],
                                         GEMINI_CODE_ASSIST_GENERATE_PATH>>,
                                       oauth.accessToken, TRUE))
    ELSE /\ StoredAfter = [has |-> TRUE, ok |-> FALSE, status |-> response.status]
         /\ thrown' = (IF response.message # Undef THEN response.message
                       ELSE <<"Request failed with status ">> \o NatToString(response.status))
         /\ requests' = requests

\* While an attempt runs, its requests went to daily, autopush, prod in this
\* order, as far as it got; no attempt ever reports 502.
EndpointOrder ==
    /\ oauth.pc = "generate" =>
          /\ oauth.endpoint \in 1..3
          /\ Len(requests) >= oauth.endpoint
          /\ \A k \in 1..oauth.endpoint :
                requests[Len(requests) - oauth.endpoint + k].endpoint =
                    <<(<<"daily", "autopush", "prod">>)[k], GEMINI_CODE_ASSIST_GENERATE_PATH>>
    /\ oauth.firstAttempt.status # 502
    /\ oauth.retry.status # 502
    /\ thrown # <<"Request failed for all Google Code Assist endpoints.">>

\* C29: within one generateContent attempt the endpoints are tried in the
\* order daily, autopush, prod: a 2xx response ends the attempt with
\* success, a 401 or 403 ends it at once with that status, any other status
\* moves on to the next endpoint, and when all three fail the attempt
\* reports the status and message of the last one; the generic 502 outcome
\* is never produced.
C29_EndpointWalk ==
    /\ []EndpointOrder
    /\ [][GenerateStep => \E response \in GenerateResponses :
                              GenerateOutcome(response, TRUE)]_vars

\* C29 as amended: a 2xx response ends the attempt with success when a
\* payload is decoded from its body, and otherwise ends the attempt and the
\* search with the decoding error thrown; the rest as claimed.
C29_EndpointWalkDecoding ==
    /\ []EndpointOrder
    /\ [][GenerateStep => \E response \in GenerateResponses :
                              GenerateOutcome(response, ~response.emptyText)]_vars

\* All three endpoints were tried in order and the last one's failure was
\* thrown.
C29_Witness ==
    /\ oauth.pc = "done"
    /\ oauth.endpoint = 3
    /\ oauth.attempt = 1
    /\ oauth.firstAttempt = [has |-> TRUE, ok |-> FALSE, status |-> 500]
    /\ thrown = <<"unavailable">>
    /\ Len(requests) >= 3
    /\ requests[Len(requests)].endpoint = <<"prod", GEMINI_CODE_ASSIST_GENERATE_PATH>>
    /\ requests[Len(requests) - 1].endpoint = <<"autopush", GEMINI_CODE_ASSIST_GENERATE_PATH>>
    /\ requests[Len(requests) - 2].endpoint = <<"daily", GEMINI_CODE_ASSIST_GENERATE_PATH>>

(***************************************************************************)
(* Claims about the selection state of the websearch_cited plugin.         *)
(***************************************************************************)
SelectionState == <<selectedProvider, selectedModel, openaiConfig, configError>>

\* The selection state is the one the last config handed to the hook gives,
\* provider and model are set together, and an error is kept only when no
\* provider was selected.
SelectionFromLastConfig ==
    loaded = "websearch_cited" =>
        /\ SelectionState =
               <<ConfigHookState(cfgInput).selectedProvider,
                 ConfigHookState(cfgInput).selectedModel,
                 ConfigHookState(cfgInput).openaiConfig,
                 ConfigHookState(cfgInput).configError>>
        /\ (selectedProvider = NoProvider) <=> (selectedModel = Undef)
        /\ configError # Undef => selectedProvider = NoProvider
        /\ selectedProvider # OPENAI_PROVIDER_ID => openaiConfig = EmptyOpenAIConfig
        /\ selectedProvider # NoProvider =>
              \E i \in DOMAIN cfgInput.provider :
                  /\ cfgInput.provider[i].id = selectedProvider
                  /\ Trim(cfgInput.provider[i].model) = selectedModel

\* C30: after each call of the config hook the selection state
\* (selectedProvider, selectedModel, openaiConfig, configError) is a
\* function of that config alone: nothing of an earlier config survives,
\* provider and model are both set or both unset, configError is set only
\* when no provider was selected; tool executions and auth-loader calls
\* leave the state unchanged.
C30_SelectionState ==
    /\ []SelectionFromLastConfig
    /\ [][call'.op # "config" => SelectionState' = SelectionState]_vars

\* The tool ran after a config that selected openai with options of its own
\* and after the auth loader, and the selection is still there.
C30_Witness ==
    /\ call.op = "websearch_cited"
    /\ selectedProvider = OPENAI_PROVIDER_ID
    /\ openaiConfig # EmptyOpenAIConfig
    /\ authRegistry[OPENROUTER_PROVIDER_ID].behaviour # "unregistered"

====
